---------------------------- MODULE Spec2Model ----------------------------
(***************************************************************************)
(* Link synchronisation and task cache of the obsidian-singularity plugin. *)
(*                                                                         *)
(* Strings that the code takes apart (URLs, status identifiers) are        *)
(* sequences of tokens, so that startsWith / includes / indexOf /          *)
(* substring / concatenation are computed and not assumed:                 *)
(*   "singularityapp://?&page=any&id=T-1#sid=7"                            *)
(*      is <<"singularityapp://", "?&page=any&id=", "T1", "#sid=", "u7">>   *)
(*   "obsidian://open?vault=V&file=a.md#sid=7"                             *)
(*      is <<"obsidian://", "a.md", "#sid=", "u7">>                         *)
(* A Delta operation {insert, attributes?} is a record                     *)
(*   [insert, hasAttr, attributes], attributes a function on a subset of   *)
(*   {"link", "bold"}; hasAttr = FALSE is an operation with no attributes  *)
(*   object at all.  Sequences are 1-based, index 0 stands for null.       *)
(***************************************************************************)
EXTENDS Integers, Sequences, FiniteSets, TLC

VARIABLES
    \* ---- Rich-text link editor, applied to drawn inputs
    edIn,       \* [ops, title, url, sid]: the arguments of updateObsidianLinkById
    edOut,      \* [done, ops]: its result; [grown, added]: the body as further
                \* references are appended to it, and the identifiers appended
    \* ---- Status resolution of TaskCache.getTaskData, applied to drawn inputs
    stIn,       \* [checked, assigned, statuses, language]
    stOut,      \* [done, version, status]
    \* ---- Vault (host) state
    notePath,   \* [Notes -> path]: TFile.path, changed in place by a rename
    fileFm,     \* [Notes -> Seq(field value)]: the front matter stored in the file
    cacheFm,    \* [Notes -> Seq(field value)]: metadataCache's view of it
    \* ---- Remote store
    remote,     \* [Tasks -> [hasNote, content]]: task.note and the note's content
    \* ---- Synchronizer
    proc,       \* [Procs -> run]: the syncFile calls in flight
    nextSid,    \* the next value generateUUID returns
    runs,       \* syncFile calls started so far
    fails,      \* rejected awaits so far
    renames,    \* renames so far
    \* ---- History (read by the properties only)
    issued,     \* [Refs -> SUBSET Uuids]: identifiers getOrCreateSingularityId returned
    nsync,      \* [Refs -> 0..2]: resolutions that returned normally (capped)
    lastRun,    \* [note, clean, found, tried, done]: the last completed run, until a rename
    raced,      \* the references two runs held fetched bodies for at once
    \* ---- TaskCache
    now,        \* Date.now(), in minutes
    cacheTTL,   \* TaskCache.cacheTTL, in minutes
    taskCache,  \* [Tasks -> entry]: Map<taskId, CacheEntry<TaskData>>
    kanbanCache,\* [Projects -> entry]: Map<projectId, CacheEntry<KanbanStatus[]>>
    tagsCache,  \* entry: CacheEntry<SingularityTag[]> | null
    srv,        \* [Tasks -> version]: the task as the remote store holds it
    call,       \* [Callers -> getTaskData call in flight]
    ret,        \* [Callers -> how the caller's last getTaskData call ended]
    cacheFails, \* rejected fetches so far
    cleared,    \* invalidateAll has run and no getTaskData call has begun since
    \* ---- Change intake of ObsidianLinkSync
    autoSync,   \* plugin.settings.autoSync
    timer,      \* the debouncer holds a timeout
    due,        \* seconds until that timeout fires
    runAt,      \* seconds until the postponed deadline, 0 when none
    args,       \* the file of the latest syncDebounced call, "none" once it has run
    age,        \* seconds since the latest syncDebounced call (capped)
    starts,     \* [Files -> syncFile calls so far]
    nsig,       \* signals delivered so far
    lastSig,    \* the latest signal: its kind, its file, autoSync at that time
    \* ---- Reference discovery applied to drawn frontmatter trees
    scanIn,     \* the frontmatter object
    scanOut,    \* [done, results]: what findAllSingularityUrls returns for it
    \* ---- SingularityAPI
    token       \* SingularityAPI.token, "" when no credential is configured

edVars == <<edIn, edOut>>
stVars == <<stIn, stOut>>
vaultVars == <<notePath, fileFm, cacheFm>>
syncVars == <<notePath, fileFm, cacheFm, remote, proc, nextSid, runs, fails, renames,
              issued, nsync, lastRun, raced>>
cacheVars == <<now, cacheTTL, taskCache, kanbanCache, tagsCache, srv, call, ret,
               cacheFails, cleared>>
\* the cache's state apart from the per-task map
cacheRest == <<now, cacheTTL, kanbanCache, tagsCache, srv, call, ret, cacheFails, cleared>>
intakeVars == <<autoSync, timer, due, runAt, args, age, starts, nsig, lastSig>>
scanVars == <<scanIn, scanOut>>
apiVars == <<token>>
vars == <<edIn, edOut, stIn, stOut, notePath, fileFm, cacheFm, remote, proc, nextSid,
          runs, fails, renames, issued, nsync, lastRun, raced,
          now, cacheTTL, taskCache, kanbanCache, tagsCache, srv, call, ret, cacheFails,
          cleared,
          autoSync, timer, due, runAt, args, age, starts, nsig, lastSig,
          scanIn, scanOut, token>>

-----------------------------------------------------------------------------
(* String helpers over token sequences *)

Min(S) == CHOOSE x \in S : \A y \in S : x <= y

\* String.prototype.includes
Includes(s, t) ==
    \E i \in 1..(Len(s) - Len(t) + 1) : SubSeq(s, i, i + Len(t) - 1) = t

\* String.prototype.startsWith
StartsWith(s, t) == Len(s) >= Len(t) /\ SubSeq(s, 1, Len(t)) = t

\* String.prototype.indexOf, 1-based; 0 when absent
IndexOf(s, t) ==
    LET hits == {i \in 1..(Len(s) - Len(t) + 1) : SubSeq(s, i, i + Len(t) - 1) = t}
    IN IF hits = {} THEN 0 ELSE Min(hits)

-----------------------------------------------------------------------------
(* Delta operations *)

EmptyAttrs == [k \in {} |-> TRUE]

PlainOp(text) == [insert |-> text, hasAttr |-> FALSE, attributes |-> EmptyAttrs]

LinkOp(text, link) ==
    [insert |-> text, hasAttr |-> TRUE, attributes |-> [k \in {"link"} |-> link]]

BoldLinkOp(text, link) ==
    [insert |-> text, hasAttr |-> TRUE,
     attributes |-> [k \in {"link", "bold"} |-> IF k = "link" THEN link ELSE TRUE]]

BoldOp(text) ==
    [insert |-> text, hasAttr |-> TRUE, attributes |-> [k \in {"bold"} |-> TRUE]]

\* op.attributes?.link is a (non-empty) string
HasLink(op) == op.hasAttr /\ "link" \in DOMAIN op.attributes

\* { ...attributes, link: url }
WithLink(attributes, url) ==
    [k \in (DOMAIN attributes) \cup {"link"} |->
        IF k = "link" THEN url ELSE attributes[k]]

SID_FRAGMENT == "#sid="

Newline == <<"\n">>

\* `Obsidian: "${noteTitle}"`
LinkText(noteTitle) == <<"Obsidian: ", noteTitle>>

isOnlyNewline(op) == op.insert = Newline /\ ~op.hasAttr

-----------------------------------------------------------------------------
(* SingularityAPI: the pure operations on Delta sequences *)

findObsidianLinkById(deltaOps, singularityId) ==
    LET sidFragment == <<SID_FRAGMENT, singularityId>>
        hits == {i \in 1..Len(deltaOps) :
                    HasLink(deltaOps[i])
                    /\ Includes(deltaOps[i].attributes["link"], sidFragment)}
    IN IF hits = {} THEN 0 ELSE Min(hits)

findObsidianLink(deltaOps) ==
    LET hits == {i \in 1..Len(deltaOps) :
                    HasLink(deltaOps[i])
                    /\ StartsWith(deltaOps[i].attributes["link"], <<"obsidian://">>)}
    IN IF hits = {} THEN 0 ELSE Min(hits)

\* A slip that forgets to skip the links that already carry an identifier.
findAnyObsidianLinkNoSkip(deltaOps) ==
    LET hits == {i \in 1..Len(deltaOps) :
                    HasLink(deltaOps[i])
                    /\ StartsWith(deltaOps[i].attributes["link"], <<"obsidian://">>)}
    IN IF hits = {} THEN 0 ELSE Min(hits)

findAnyObsidianLink(deltaOps) ==
    LET hits == {i \in 1..Len(deltaOps) :
                    HasLink(deltaOps[i])
                    /\ StartsWith(deltaOps[i].attributes["link"], <<"obsidian://">>)
                    /\ ~Includes(deltaOps[i].attributes["link"], <<SID_FRAGMENT>>)}
    IN IF hits = {} THEN 0 ELSE Min(hits)

createNoteLinkOps(noteTitle, obsidianUrl, singularityId) ==
    LET urlWithSid == obsidianUrl \o <<SID_FRAGMENT, singularityId>>
    IN << LinkOp(LinkText(noteTitle), urlWithSid), PlainOp(Newline) >>

\* A slip that keeps the trailing line terminator and adds the separator.
updateObsidianLinkByIdNoPop(deltaOps, noteTitle, obsidianUrl, singularityId) ==
    LET existing   == findObsidianLinkById(deltaOps, singularityId)
        urlWithSid == obsidianUrl \o <<SID_FRAGMENT, singularityId>>
        newLinkOps == createNoteLinkOps(noteTitle, obsidianUrl, singularityId)
        separated  == IF Len(deltaOps) > 0
                      THEN Append(deltaOps, PlainOp(Newline))
                      ELSE deltaOps
    IN IF existing # 0
       THEN [deltaOps EXCEPT ![existing] =
                [insert     |-> LinkText(noteTitle),
                 hasAttr    |-> TRUE,
                 attributes |-> WithLink(deltaOps[existing].attributes, urlWithSid)]]
       ELSE separated \o newLinkOps

\* A slip that rebuilds the attributes object instead of spreading it.
updateObsidianLinkByIdDropAttrs(deltaOps, noteTitle, obsidianUrl, singularityId) ==
    LET existing   == findObsidianLinkById(deltaOps, singularityId)
        urlWithSid == obsidianUrl \o <<SID_FRAGMENT, singularityId>>
    IN IF existing # 0
       THEN [deltaOps EXCEPT ![existing] = LinkOp(LinkText(noteTitle), urlWithSid)]
       ELSE deltaOps \o createNoteLinkOps(noteTitle, obsidianUrl, singularityId)

updateObsidianLinkById(deltaOps, noteTitle, obsidianUrl, singularityId) ==
    LET existing   == findObsidianLinkById(deltaOps, singularityId)
        urlWithSid == obsidianUrl \o <<SID_FRAGMENT, singularityId>>
        newLinkOps == createNoteLinkOps(noteTitle, obsidianUrl, singularityId)
        popped     == IF Len(deltaOps) > 0 /\ isOnlyNewline(deltaOps[Len(deltaOps)])
                      THEN SubSeq(deltaOps, 1, Len(deltaOps) - 1)
                      ELSE deltaOps
        separated  == IF Len(popped) > 0
                      THEN Append(popped, PlainOp(Newline))
                      ELSE popped
    IN IF existing # 0
       THEN [deltaOps EXCEPT ![existing] =
                [insert     |-> LinkText(noteTitle),
                 hasAttr    |-> TRUE,
                 attributes |-> WithLink(deltaOps[existing].attributes, urlWithSid)]]
       ELSE separated \o newLinkOps

\* A slip that leaves the legacy link alone and appends a marked copy of it.
addSidToLinkAppend(deltaOps, linkIndex, singularityId) ==
    LET op == deltaOps[linkIndex]
    IN IF HasLink(op)
       THEN Append(deltaOps,
                [insert     |-> op.insert,
                 hasAttr    |-> TRUE,
                 attributes |-> WithLink(op.attributes,
                                  op.attributes["link"] \o <<SID_FRAGMENT, singularityId>>)])
       ELSE deltaOps

addSidToLink(deltaOps, linkIndex, singularityId) ==
    LET op == deltaOps[linkIndex]
    IN IF HasLink(op)
       THEN [deltaOps EXCEPT ![linkIndex] =
                [insert     |-> op.insert,
                 hasAttr    |-> TRUE,
                 attributes |-> WithLink(op.attributes,
                                  op.attributes["link"] \o <<SID_FRAGMENT, singularityId>>)]]
       ELSE deltaOps

\* A slip that creates the body without the line terminator.
createInitialDeltaBare(noteTitle, obsidianUrl, singularityId) ==
    << LinkOp(LinkText(noteTitle), obsidianUrl \o <<SID_FRAGMENT, singularityId>>) >>

createInitialDelta(noteTitle, obsidianUrl, singularityId) ==
    createNoteLinkOps(noteTitle, obsidianUrl, singularityId)

\* types.ts: `obsidian://open?vault=${enc(vault)}&file=${enc(filePath)}`;
\* encodeURIComponent escapes '#', so the file token never holds a fragment.
buildObsidianUrl(filePath) == <<"obsidian://", filePath>>

-----------------------------------------------------------------------------
(* The editor applied to drawn inputs *)

MaxLen == 3

EdSids == {"u1", "u2"}
EdPaths == {"a.md", "b.md"}

EdAlphabet ==
    { PlainOp(<<"text">>), PlainOp(Newline), BoldOp(<<"text">>),
      LinkOp(<<"legacy">>, buildObsidianUrl("a.md")),
      BoldLinkOp(<<"mine">>, buildObsidianUrl("a.md") \o <<SID_FRAGMENT, "u1">>),
      LinkOp(<<"other">>, buildObsidianUrl("b.md") \o <<SID_FRAGMENT, "u2">>) }

EdBodies == UNION { [1..n -> EdAlphabet] : n \in 0..MaxLen }

MaxAppends == 2

\* the identifiers of the references appended after the first call
EdFreshSids == <<"u3", "u4", "u5", "u6">>

EdNone == [done |-> FALSE, ops |-> << >>, grown |-> << >>, added |-> << >>, n |-> 0]

EdInit ==
    /\ edIn \in [ops : EdBodies, title : {"a"}, url : {buildObsidianUrl("b.md")},
                 sid : EdSids]
    /\ edOut = EdNone

EdApply ==
    /\ ~edOut.done
    /\ LET ops == updateObsidianLinkById(edIn.ops, edIn.title, edIn.url, edIn.sid)
       IN edOut' = [done |-> TRUE, ops |-> ops, grown |-> ops,
                    added |-> IF findObsidianLinkById(edIn.ops, edIn.sid) = 0
                              THEN <<edIn.sid>> ELSE << >>,
                    n |-> 0]
    /\ UNCHANGED edIn

\* updateObsidianLinkById is called on its own result for a further
\* reference, one whose identifier the body does not hold
EdAppend ==
    /\ edOut.done
    /\ edOut.n < MaxAppends
    /\ LET sid == EdFreshSids[edOut.n + 1]
       IN edOut' = [edOut EXCEPT
                       !.grown = updateObsidianLinkById(@, "b", buildObsidianUrl("a.md"), sid),
                       !.added = Append(@, sid),
                       !.n = @ + 1]
    /\ UNCHANGED edIn

-----------------------------------------------------------------------------
(* TaskCache.getTaskData: status resolution *)

\* Status identifiers: 'KS-P-1-TODO' is <<"KS", "P1", "TODO">>, a custom
\* status 'KS-7' is <<"KS", "u7">>; the dashes are the token boundaries.
EndsWithDash(id, suffix) == Len(id) > 1 /\ id[Len(id)] = suffix

NullStatus == [isNull |-> TRUE, id |-> << >>, name |-> ""]

Status(id, name) == [isNull |-> FALSE, id |-> id, name |-> name]

\* Array.prototype.find: the first element satisfying Test, 0 when none
FindFirst(seq, Test(_)) ==
    LET hits == {i \in 1..Len(seq) : Test(seq[i])}
    IN IF hits = {} THEN 0 ELSE Min(hits)

\* LOCALES[language].statusCancelled / .statusDone
LOCALES(language) ==
    IF language = "ru"
    THEN [statusCancelled |-> "Otmenena", statusDone |-> "Gotovo"]
    ELSE [statusCancelled |-> "Cancelled", statusDone |-> "Done"]

\* A slip that tests the kanban assignment before the completion flags.
resolveStatusKanbanFirst(checked, taskKanbanStatus, projectStatuses, language) ==
    LET isCompleted == checked = 1
        isCancelled == checked = 2
        locale      == LOCALES(language)
    IN IF Len(taskKanbanStatus) > 0
       THEN LET statusId == taskKanbanStatus[1].statusId
                IsIt(s)  == s.id = statusId
                k        == FindFirst(projectStatuses, IsIt)
            IN IF k # 0
               THEN Status(projectStatuses[k].id, projectStatuses[k].name)
               ELSE NullStatus
       ELSE IF isCancelled THEN Status(<<"CANCELLED">>, locale.statusCancelled)
       ELSE IF isCompleted THEN Status(<<"DONE">>, locale.statusDone)
       ELSE LET IsTodo(s) == EndsWithDash(s.id, "TODO")
                k         == FindFirst(projectStatuses, IsTodo)
            IN IF k # 0
               THEN Status(projectStatuses[k].id, projectStatuses[k].name)
               ELSE NullStatus

\* A slip that falls back to the backlog entry when the assigned identifier
\* is not in the status set.
resolveStatusBacklogFallback(checked, taskKanbanStatus, projectStatuses, language) ==
    LET isCompleted == checked = 1
        isCancelled == checked = 2
        locale      == LOCALES(language)
        IsTodo(s)   == EndsWithDash(s.id, "TODO")
        todo        == FindFirst(projectStatuses, IsTodo)
        backlog     == IF todo # 0
                       THEN Status(projectStatuses[todo].id, projectStatuses[todo].name)
                       ELSE NullStatus
    IN IF isCancelled THEN Status(<<"CANCELLED">>, locale.statusCancelled)
       ELSE IF isCompleted THEN Status(<<"DONE">>, locale.statusDone)
       ELSE IF Len(taskKanbanStatus) > 0
       THEN LET statusId == taskKanbanStatus[1].statusId
                IsIt(s)  == s.id = statusId
                k        == FindFirst(projectStatuses, IsIt)
            IN IF k # 0
               THEN Status(projectStatuses[k].id, projectStatuses[k].name)
               ELSE backlog
       ELSE backlog

\* The "Determine status" block of getTaskData (localised labels).
resolveStatus(checked, taskKanbanStatus, projectStatuses, language) ==
    LET isCompleted == checked = 1
        isCancelled == checked = 2
        locale      == LOCALES(language)
    IN IF isCancelled THEN Status(<<"CANCELLED">>, locale.statusCancelled)
       ELSE IF isCompleted THEN Status(<<"DONE">>, locale.statusDone)
       ELSE IF Len(taskKanbanStatus) > 0
       THEN LET statusId == taskKanbanStatus[1].statusId
                IsIt(s)  == s.id = statusId
                k        == FindFirst(projectStatuses, IsIt)
            IN IF k # 0
               THEN Status(projectStatuses[k].id, projectStatuses[k].name)
               ELSE NullStatus
       ELSE LET IsTodo(s) == EndsWithDash(s.id, "TODO")
                k         == FindFirst(projectStatuses, IsTodo)
            IN IF k # 0
               THEN Status(projectStatuses[k].id, projectStatuses[k].name)
               ELSE NullStatus

\* The same block in src/cache/taskCache.ts (labels in source, -DONE lookup).
resolveStatusInline(checked, taskKanbanStatus, projectStatuses) ==
    LET isCompleted == checked = 1
        isCancelled == checked = 2
    IN IF isCancelled THEN Status(<<"CANCELLED">>, "Otmenena")
       ELSE IF isCompleted
       THEN LET IsDone(s) == EndsWithDash(s.id, "DONE")
                k         == FindFirst(projectStatuses, IsDone)
            IN IF k # 0
               THEN Status(projectStatuses[k].id, projectStatuses[k].name)
               ELSE Status(<<"DONE">>, "Gotovo")
       ELSE IF Len(taskKanbanStatus) > 0
       THEN LET statusId == taskKanbanStatus[1].statusId
                IsIt(s)  == s.id = statusId
                k        == FindFirst(projectStatuses, IsIt)
            IN IF k # 0
               THEN Status(projectStatuses[k].id, projectStatuses[k].name)
               ELSE NullStatus
       ELSE LET IsTodo(s) == EndsWithDash(s.id, "TODO")
                k         == FindFirst(projectStatuses, IsTodo)
            IN IF k # 0
               THEN Status(projectStatuses[k].id, projectStatuses[k].name)
               ELSE NullStatus

(* Status resolution applied to drawn inputs *)

MaxStatuses == 2

StTodo     == [id |-> <<"KS", "P1", "TODO">>, name |-> "Backlog"]
StProgress == [id |-> <<"KS", "P1", "IN-PROGRESS">>, name |-> "Doing"]
StDone     == [id |-> <<"KS", "P1", "DONE">>, name |-> "Shipped"]
StCustom   == [id |-> <<"KS", "u7">>, name |-> "Review"]

StEntries == {StTodo, StProgress, StDone, StCustom}

StSets == UNION { [1..n -> StEntries] : n \in 0..MaxStatuses }

\* The task's kanban assignments: none, or one naming a status identifier
\* (which the scoped status set may or may not hold).
StAssignments ==
    { << >> } \cup { << [taskId |-> "T1", statusId |-> e.id] >> : e \in StEntries }

StNone == [done |-> FALSE, version |-> "none", status |-> NullStatus]

StInit ==
    /\ stIn \in [checked : 0..2, assigned : StAssignments, statuses : StSets,
                 language : {"en", "ru"}]
    /\ stOut = StNone

StResolve ==
    /\ ~stOut.done
    /\ stOut' = [done |-> TRUE, version |-> "locale",
                 status |-> resolveStatus(stIn.checked, stIn.assigned,
                                          stIn.statuses, stIn.language)]
    /\ UNCHANGED stIn

StResolveInline ==
    /\ ~stOut.done
    /\ stOut' = [done |-> TRUE, version |-> "inline",
                 status |-> resolveStatusInline(stIn.checked, stIn.assigned,
                                                stIn.statuses)]
    /\ UNCHANGED stIn

EdIdle == edIn = [ops |-> << >>, title |-> "a", url |-> buildObsidianUrl("b.md"), sid |-> "u1"]
          /\ edOut = EdNone
StIdle == stIn = [checked |-> 0, assigned |-> << >>, statuses |-> << >>, language |-> "en"]
          /\ stOut = StNone

-----------------------------------------------------------------------------
(* Vault and remote store *)

Notes == {"n1", "n2", "n3"}
Tasks == {"T1", "T2"}
Procs == {1, 2}

\* `singularityapp://?&page=any&id=${taskId}`
RefUrl(taskId) == <<"singularityapp://", "?&page=any&id=", taskId>>
\* a singularityapp:// URL that SINGULARITY_URL_REGEX_SINGLE does not match
BadUrl == <<"singularityapp://", "settings">>
TextField == <<"draft">>

\* types.ts extractTaskId: the identifier after the matched prefix, or null
extractTaskId(url) ==
    LET i == IndexOf(url, <<"singularityapp://", "?&page=any&id=">>)
    IN IF i > 0 /\ Len(url) >= i + 2 /\ url[i + 2] \in Tasks
       THEN url[i + 2] ELSE "none"

\* /#sid=([a-f0-9-]+)/i : the identifier after the first '#sid=', or null ("")
extractSidFromUrl(url) ==
    LET i == IndexOf(url, <<SID_FRAGMENT>>)
    IN IF i > 0 /\ Len(url) > i THEN url[i + 1] ELSE ""

\* findAllSingularityUrls over top-level string fields, in field order, each
\* entry with the task identifier syncFile extracts from it
RECURSIVE findAllSingularityUrls(_, _)
findAllSingularityUrls(frontmatter, k) ==
    IF k > Len(frontmatter) THEN << >>
    ELSE (IF StartsWith(frontmatter[k], <<"singularityapp://">>)
          THEN << [fieldName |-> k, taskId |-> extractTaskId(frontmatter[k])] >>
          ELSE << >>)
         \o findAllSingularityUrls(frontmatter, k + 1)

\* extractBaseUrl: null is << >>
extractBaseUrl(op) ==
    IF ~HasLink(op) \/ ~StartsWith(op.attributes["link"], <<"obsidian://">>)
    THEN << >>
    ELSE LET url == op.attributes["link"]
             hashIndex == IndexOf(url, <<SID_FRAGMENT>>)
         IN IF hashIndex > 1 THEN SubSeq(url, 1, hashIndex - 1) ELSE url

\* TFile.basename of the paths of the model
Basename(path) ==
    CASE path = "a.md" -> "a"
      [] path = "d/a.md" -> "a"
      [] path = "b.md" -> "b"
      [] path = "c.md" -> "c"
      [] OTHER -> "e"

\* The paths a rename may give a note
RenameTargets(n) ==
    CASE n = "n1" -> {"a.md", "d/a.md"}
      [] n = "n2" -> {"b.md", "c.md"}
      [] OTHER -> {}

\* JSON.stringify(deltaOps), and what parseNoteContent makes of a content
Serialize(ops) == [kind |-> "array", ops |-> ops]
\* text JSON.parse throws on
Unparseable == [kind |-> "unparseable", ops |-> << >>]
\* text JSON.parse reads as an object that is no array, such as {"ops": [...]}
Wrapped == [kind |-> "object", ops |-> << >>]

\* The elements the scans over the parsed value visit: those of an array,
\* none after a parse error ([]), none of an object (its length is undefined)
parseNoteContent(content) ==
    IF content.kind = "array" THEN content.ops ELSE << >>

\* [...deltaOps] throws a TypeError on a parsed value that is not iterable
SpreadThrows(content) == content.kind = "object"

\* The body a link of the model's vault may be found in before the first run
InitBodies ==
    { [hasNote |-> FALSE, content |-> Serialize(<< >>)],
      [hasNote |-> TRUE, content |-> Serialize(<< >>)],
      [hasNote |-> TRUE, content |-> Unparseable],
      [hasNote |-> TRUE, content |-> Wrapped],
      [hasNote |-> TRUE,
       content |-> Serialize(<< BoldOp(<<"text">>), PlainOp(Newline) >>)],
      [hasNote |-> TRUE,
       content |-> Serialize(<< PlainOp(<<"text">>),
                                LinkOp(<<"my note">>, buildObsidianUrl("a.md")),
                                PlainOp(Newline) >>)],
      [hasNote |-> TRUE,
       content |-> Serialize(<< LinkOp(<<"old">>, buildObsidianUrl("z.md")) >>)],
      [hasNote |-> TRUE,
       content |-> Serialize(<< BoldLinkOp(LinkText("a"),
                                   buildObsidianUrl("a.md") \o <<SID_FRAGMENT, "u1">>),
                                PlainOp(Newline) >>)] }

\* The references of the vault: (note, field index)
Refs == { <<"n1", 2>>, <<"n1", 3>>, <<"n2", 2>> }

\* The identifier a reference carries when it was synchronised before
PreSid(r) == IF r = <<"n1", 2>> THEN "u1" ELSE IF r = <<"n1", 3>> THEN "u2" ELSE "u3"

\* generateUUID: the n-th identifier it returns (distinct from all before it)
Uuids == <<"u1", "u2", "u3", "u4", "u5", "u6", "u7", "u8", "u9", "u10", "u11", "u12",
           "u13", "u14", "u15", "u16">>
generateUUID(n) == Uuids[n]

FirstFreshSid == Cardinality(Refs) + 1

\* Which references carry an identifier at the start: a note was synchronised
\* before (all its references carry one) or never
SidLayouts == { h \in [Refs -> BOOLEAN] : h[<<"n1", 2>>] = h[<<"n1", 3>>] }

OwnSids(h) == [r \in Refs |-> IF h[r] THEN PreSid(r) ELSE ""]

\* n2's field is a copy of n1's synchronised field, fragment included
CopiedSids ==
    [r \in Refs |-> IF r = <<"n2", 2>> THEN PreSid(<<"n1", 2>>) ELSE PreSid(r)]

\* The identifiers the fields may carry before the first run ("" for none)
InitSids == {OwnSids(h) : h \in SidLayouts} \cup {CopiedSids}

MaybeSid(url, sid) == IF sid # "" THEN url \o <<SID_FRAGMENT, sid>> ELSE url

-----------------------------------------------------------------------------
(* Reference discovery: findAllSingularityUrls and getFieldValue on trees *)

MaxDepth == 2
MaxItems == 2

\* The values of a frontmatter tree: a string, an array, a mapping (its
\* entries in key order); undefined is what a failed lookup gives
Str(v) == [t |-> "str", v |-> v]
Arr(items) == [t |-> "arr", v |-> items]
Obj(entries) == [t |-> "map", v |-> entries]
Undefined == [t |-> "undef", v |-> << >>]

\* `[${idx}]` of idx = 0, 1, 2, ...
IdxTok == <<"0", "1", "2", "3">>

ScanLeaves == { Str(RefUrl("T1")), Str(<<"see ">> \o RefUrl("T2")), Str(<<"draft">>) }

\* keys of mappings; the last one holds a dot
ScanKeys == { <<"a">>, <<"b">> }
TopKeys == ScanKeys \cup { <<"a", ".", "b">> }

Seqs(S, n) == UNION { [1..k -> S] : k \in 1..n }

\* the values nested to depth d at most
RECURSIVE ScanValues(_)
ScanValues(d) ==
    IF d = 0 THEN ScanLeaves
    ELSE LET below == ScanValues(d - 1)
         IN ScanLeaves
            \cup { Arr(items) : items \in Seqs(below, MaxItems) }
            \cup { Obj(<< [k |-> key, val |-> v] >>) : key \in ScanKeys, v \in below }

\* The frontmatter objects drawn
ScanTrees ==
    { Obj(<< [k |-> key, val |-> v] >>) : key \in TopKeys, v \in ScanValues(MaxDepth) }

\* value.forEach((item, idx) => ...): the string items that start with the scheme
RECURSIVE ScanItems(_, _, _)
ScanItems(items, i, fieldName) ==
    IF i > Len(items) THEN << >>
    ELSE (IF items[i].t = "str" /\ StartsWith(items[i].v, <<"singularityapp://">>)
          THEN << [url |-> items[i].v, fieldName |-> fieldName \o <<"[", IdxTok[i], "]">>] >>
          ELSE << >>)
         \o ScanItems(items, i + 1, fieldName)

\* findAllSingularityUrls(obj, prefix): the loop over Object.entries(obj)
\* from entry k on
RECURSIVE findAllSingularityUrlsIn(_, _, _)
findAllSingularityUrlsIn(entries, k, prefix) ==
    IF k > Len(entries) THEN << >>
    ELSE LET key       == entries[k].k
             value     == entries[k].val
             fieldName == IF prefix # << >> THEN prefix \o <<".">> \o key ELSE key
         IN (IF value.t = "str"
             THEN IF StartsWith(value.v, <<"singularityapp://">>)
                  THEN << [url |-> value.v, fieldName |-> fieldName] >>
                  ELSE << >>
             ELSE IF value.t = "arr"
             THEN ScanItems(value.v, 1, fieldName)
             ELSE findAllSingularityUrlsIn(value.v, 1, fieldName))
            \o findAllSingularityUrlsIn(entries, k + 1, prefix)

PathSeparators == {".", "[", "]"}

\* fieldName.match(/([^.\[\]]+)|\[(\d+)\]/g): the parts of a path, a part
\* being a run of characters other than . [ ] or a bracketed index
RECURSIVE PathParts(_, _)
PathParts(fieldName, i) ==
    IF i > Len(fieldName) THEN << >>
    ELSE IF fieldName[i] \notin PathSeparators
    THEN LET stops == {j \in i..Len(fieldName) : fieldName[j] \in PathSeparators}
             end   == IF stops = {} THEN Len(fieldName) ELSE Min(stops) - 1
         IN << [index |-> 0, key |-> SubSeq(fieldName, i, end)] >>
            \o PathParts(fieldName, end + 1)
    ELSE IF /\ fieldName[i] = "["
            /\ i + 2 <= Len(fieldName)
            /\ \E n \in 1..Len(IdxTok) : fieldName[i + 1] = IdxTok[n]
            /\ fieldName[i + 2] = "]"
    THEN << [index |-> CHOOSE n \in 1..Len(IdxTok) : fieldName[i + 1] = IdxTok[n],
             key |-> << >>] >>
         \o PathParts(fieldName, i + 3)
    ELSE PathParts(fieldName, i + 1)

\* current[part] on a mapping
Lookup(entries, key) ==
    LET hits == {k \in 1..Len(entries) : entries[k].k = key}
    IN IF hits = {} THEN Undefined ELSE entries[Min(hits)].val

\* getFieldValue: the loop over the parts from part i on
RECURSIVE Walk(_, _, _)
Walk(current, parts, i) ==
    IF i > Len(parts) THEN current
    ELSE IF current.t = "undef" THEN Undefined
    ELSE IF parts[i].index > 0
    THEN Walk(IF current.t = "arr" /\ parts[i].index <= Len(current.v)
              THEN current.v[parts[i].index] ELSE Undefined, parts, i + 1)
    ELSE Walk(IF current.t = "map" THEN Lookup(current.v, parts[i].key) ELSE Undefined,
              parts, i + 1)

getFieldValue(obj, fieldName) ==
    LET parts == PathParts(fieldName, 1)
    IN IF parts = << >> THEN Undefined ELSE Walk(obj, parts, 1)

ScanNone == [done |-> FALSE, results |-> << >>]

ScanInit ==
    /\ scanIn \in ScanTrees
    /\ scanOut = ScanNone

ScanApply ==
    /\ ~scanOut.done
    /\ scanOut' = [done |-> TRUE, results |-> findAllSingularityUrlsIn(scanIn.v, 1, << >>)]
    /\ UNCHANGED scanIn

ScanIdle ==
    /\ scanIn = Obj(<< >>)
    /\ scanOut = ScanNone

-----------------------------------------------------------------------------
(* SingularityAPI.request: the credential check *)

Tokens == {"", "tok"}

\* the credential is configured
ApiReady == token = "tok"

\* A slip that sends the request without looking at the token.
requestSendsAlways == TRUE

\* request() reaches requestUrl: `if (!this.token) throw` comes first, so an
\* answer or a transport error exists only for a call made with a token
requestSends == token # ""

-----------------------------------------------------------------------------
(* TaskCache: entries and the invalidation the synchronizer calls *)

\* CacheEntry<T>, with has = FALSE for no entry
NoEntry == [has |-> FALSE, data |-> 0, timestamp |-> 0]
Entry(data, timestamp) == [has |-> TRUE, data |-> data, timestamp |-> timestamp]

\* A slip that clears the whole map.
invalidateTaskClear(cache, taskId) == [t \in Tasks |-> NoEntry]

\* this.taskCache.delete(taskId)
invalidateTask(cache, taskId) == [cache EXCEPT ![taskId] = NoEntry]

-----------------------------------------------------------------------------
(* Synchronizer *)

MaxRuns == 2
MaxFails == 1
MaxRenames == 1

\* What is kept of the last completed syncFile call: its note, whether no
\* reference failed, how many references it discovered, attempted and finished
NoRun == [note |-> "none", clean |-> FALSE, found |-> 0, tried |-> 0, done |-> 0]

Completed(run, n) ==
    [note |-> n, clean |-> ~run.failed,
     found |-> Cardinality({j \in 1..Len(run.urls) : run.urls[j].taskId # "none"}),
     tried |-> run.ntried, done |-> run.ndone]

IdleProc ==
    [pc |-> "idle", note |-> "none", urls |-> << >>, i |-> 0, path |-> "",
     sid |-> "", ops |-> << >>, delta |-> << >>,
     kind |-> "none", pre |-> FALSE, failed |-> FALSE, npatch |-> 0, ndone |-> 0,
     ntried |-> 0]

RefOf(run) == <<run.note, run.urls[run.i].fieldName>>
TaskOf(run) == run.urls[run.i].taskId

Cap2(x) == IF x >= 2 THEN 2 ELSE x

\* the first entry at or after i whose URL holds a task identifier
NextValid(urls, i) ==
    LET c == {j \in i..Len(urls) : urls[j].taskId # "none"}
    IN IF c = {} THEN Len(urls) + 1 ELSE Min(c)

\* A slip that appends the fragment whatever the field holds.
addSidToFieldUrlAlways(value, sid) == value \o <<SID_FRAGMENT, sid>>

\* addSidToFieldUrl's mutation of one string field
addSidToFieldUrl(value, sid) ==
    IF ~Includes(value, <<SID_FRAGMENT>>) THEN value \o <<SID_FRAGMENT, sid>> ELSE value

\* The loop of syncFile from entry i on, up to the first await of
\* syncObsidianUrl: skip entries without a task identifier; capture the path,
\* read the field from metadataCache, and either return the identifier the
\* URL carries or generate one and call processFrontMatter.
Resolve(run, i, path, sidCtr) ==
    LET j == NextValid(run.urls, i)
    IN IF j > Len(run.urls)
       THEN [proc |-> IdleProc, nextSid |-> sidCtr, done |-> TRUE]
       ELSE LET currentUrl  == cacheFm[run.note][run.urls[j].fieldName]
                existingSid == extractSidFromUrl(currentUrl)
                base == [run EXCEPT !.i = j, !.path = path, !.ops = << >>,
                                    !.delta = << >>, !.ntried = @ + 1]
            IN IF existingSid # ""
               THEN [proc |-> [base EXCEPT !.pc = "task", !.sid = existingSid],
                     nextSid |-> sidCtr, done |-> FALSE]
               ELSE [proc |-> [base EXCEPT !.pc = "fm", !.sid = generateUUID(sidCtr)],
                     nextSid |-> sidCtr + 1, done |-> FALSE]

\* The bookkeeping every step that enters Resolve shares.
Continue(p, res, run, iss) ==
    /\ proc' = [proc EXCEPT ![p] = res.proc]
    /\ nextSid' = res.nextSid
    /\ issued' = IF ~res.done /\ res.proc.pc = "task"
                 THEN [iss EXCEPT ![RefOf(res.proc)] = @ \cup {res.proc.sid}]
                 ELSE iss
    /\ lastRun' = IF res.done THEN Completed(run, run.note) ELSE lastRun

\* two runs hold a fetched body (or none) for the same reference
Racing(p, r) ==
    \E q \in Procs \ {p} : proc[q].pc = "patch" /\ RefOf(proc[q]) = r

\* syncFile(file) called: by the debounced modify handler or the command
StartSync(p, n) ==
    /\ proc[p].pc = "idle"
    /\ runs < MaxRuns
    /\ runs' = runs + 1
    /\ LET frontmatter == cacheFm[n]
           urls == findAllSingularityUrls(frontmatter, 1)
           run  == [IdleProc EXCEPT !.note = n, !.urls = urls,
                      !.kind = IF lastRun.note = n /\ lastRun.clean
                                  /\ cacheFm[n] = fileFm[n]
                               THEN "rerun" ELSE "sync"]
       IN /\ lastRun' = IF NextValid(urls, 1) > Len(urls)
                        THEN Completed(run, n) ELSE NoRun
          /\ LET res == Resolve(run, 1, notePath[n], nextSid)
             IN /\ proc' = [proc EXCEPT ![p] = res.proc]
                /\ nextSid' = res.nextSid
                /\ issued' = IF ~res.done /\ res.proc.pc = "task"
                             THEN [issued EXCEPT ![RefOf(res.proc)] = @ \cup {res.proc.sid}]
                             ELSE issued
    /\ UNCHANGED <<notePath, fileFm, cacheFm, remote, fails, renames, nsync, raced>>

\* The host renames the file; onFileRenamed calls syncFile at once
Rename(p, n) ==
    /\ proc[p].pc = "idle"
    /\ runs < MaxRuns
    /\ renames < MaxRenames
    /\ \E newPath \in RenameTargets(n) \ {notePath[n]} :
        /\ notePath' = [notePath EXCEPT ![n] = newPath]
        /\ LET urls == findAllSingularityUrls(cacheFm[n], 1)
               run  == [IdleProc EXCEPT !.note = n, !.urls = urls, !.kind = "rename",
                          !.pre = (lastRun.note = n /\ lastRun.clean)]
               res  == Resolve(run, 1, newPath, nextSid)
           IN /\ proc' = [proc EXCEPT ![p] = res.proc]
              /\ nextSid' = res.nextSid
              /\ issued' = IF ~res.done /\ res.proc.pc = "task"
                           THEN [issued EXCEPT ![RefOf(res.proc)] = @ \cup {res.proc.sid}]
                           ELSE issued
    /\ runs' = runs + 1
    /\ renames' = renames + 1
    /\ lastRun' = NoRun
    /\ UNCHANGED <<fileFm, cacheFm, remote, fails, nsync, raced>>

\* processFrontMatter runs addSidToFieldUrl's callback on the file and
\* resolves; getOrCreateSingularityId returns the generated identifier
FmWrite(p) ==
    /\ proc[p].pc = "fm"
    /\ LET run == proc[p]
           r   == RefOf(run)
       IN /\ fileFm' = [fileFm EXCEPT ![r[1]][r[2]] = addSidToFieldUrl(@, run.sid)]
          /\ proc' = [proc EXCEPT ![p].pc = "task"]
          /\ issued' = [issued EXCEPT ![r] = @ \cup {run.sid}]
    /\ UNCHANGED <<notePath, cacheFm, remote, nextSid, runs, fails, renames, nsync,
                   lastRun, raced>>

\* A slip that lets the error leave the loop: the run ends at the failing entry.
AbandonRun(p) ==
    /\ proc' = [proc EXCEPT ![p] = IdleProc]
    /\ nextSid' = nextSid
    /\ issued' = issued
    /\ lastRun' = Completed([proc[p] EXCEPT !.failed = TRUE], proc[p].note)

\* A slip that counts the entry whose resolution threw.
AbandonCounted(p) ==
    LET run == [proc[p] EXCEPT !.failed = TRUE, !.ndone = @ + 1]
        res == Resolve(run, run.i + 1, notePath[run.note], nextSid)
    IN Continue(p, res, run, issued)

\* syncObsidianUrl throws: syncFile logs and takes the next entry
Abandon(p) ==
    LET run == [proc[p] EXCEPT !.failed = TRUE]
        res == Resolve(run, run.i + 1, notePath[run.note], nextSid)
    IN Continue(p, res, run, issued)

\* an await of syncObsidianUrl rejects
Reject(p) ==
    /\ fails < MaxFails
    /\ fails' = fails + 1
    /\ Abandon(p)
    /\ UNCHANGED <<notePath, fileFm, cacheFm, remote, runs, renames, nsync, raced,
                   taskCache>>

\* A slip that goes on to the task fetch although the field write rejected.
FmFailProceed(p) ==
    /\ proc[p].pc = "fm"
    /\ fails < MaxFails
    /\ fails' = fails + 1
    /\ proc' = [proc EXCEPT ![p].pc = "task", ![p].failed = TRUE]
    /\ UNCHANGED <<notePath, fileFm, cacheFm, remote, nextSid, runs, renames, issued,
                   nsync, lastRun, raced, taskCache>>

FmFail(p) == proc[p].pc = "fm" /\ Reject(p)

GetTaskFail(p) == requestSends /\ proc[p].pc = "task" /\ Reject(p)

GetNoteFail(p) == requestSends /\ proc[p].pc = "note" /\ Reject(p)

\* A slip that invalidates before the PATCH has answered.
PatchFailInvalidates(p) ==
    /\ proc[p].pc = "patch"
    /\ fails < MaxFails
    /\ fails' = fails + 1
    /\ Abandon(p)
    /\ taskCache' = invalidateTask(taskCache, TaskOf(proc[p]))
    /\ UNCHANGED <<notePath, fileFm, cacheFm, remote, runs, renames, nsync, raced>>

PatchFail(p) == requestSends /\ proc[p].pc = "patch" /\ Reject(p)

\* the awaited api call was made without a token: request() threw before
\* requestUrl, syncObsidianUrl throws and syncFile takes the next entry
TokenMissing(p) ==
    /\ ~requestSends
    /\ proc[p].pc \in {"task", "note", "patch"}
    /\ Abandon(p)
    /\ UNCHANGED <<notePath, fileFm, cacheFm, remote, runs, fails, renames, nsync, raced,
                   taskCache>>

\* A slip that does not await the entry: the loop takes the next entry while
\* the task fetch of this one has only just answered.
GetTaskOkUnawaited(p) ==
    /\ proc[p].pc = "task"
    /\ LET run == proc[p]
           res == Resolve(run, run.i + 1, notePath[run.note], nextSid)
       IN Continue(p, res, run, issued)
    /\ UNCHANGED <<notePath, fileFm, cacheFm, remote, runs, fails, renames, nsync, raced>>

\* api.getTask answers
GetTaskOk(p) ==
    /\ requestSends
    /\ proc[p].pc = "task"
    /\ LET run  == proc[p]
           task == remote[TaskOf(run)]
       IN IF task.hasNote
          THEN /\ proc' = [proc EXCEPT ![p].pc = "note"]
               /\ UNCHANGED raced
          ELSE /\ proc' = [proc EXCEPT ![p].pc = "patch",
                             ![p].delta = createInitialDelta(Basename(run.path),
                                             buildObsidianUrl(run.path), run.sid)]
               /\ raced' = IF Racing(p, RefOf(run)) THEN raced \cup {RefOf(run)} ELSE raced
    /\ UNCHANGED <<notePath, fileFm, cacheFm, remote, nextSid, runs, fails, renames,
                   issued, nsync, lastRun>>

\* A slip whose up-to-date test also compares the display text.
ResolveLinkByText(currentOps, noteTitle, obsidianUrl, singularityId) ==
    LET existingById == findObsidianLinkById(currentOps, singularityId)
        legacyLink   == findAnyObsidianLink(currentOps)
    IN IF existingById # 0
       THEN IF /\ extractBaseUrl(currentOps[existingById]) = obsidianUrl
               /\ currentOps[existingById].insert = LinkText(noteTitle)
            THEN [skip |-> TRUE, ops |-> currentOps]
            ELSE [skip |-> FALSE,
                  ops |-> updateObsidianLinkById(currentOps, noteTitle, obsidianUrl,
                                                 singularityId)]
       ELSE IF legacyLink # 0
            THEN [skip |-> FALSE, ops |-> addSidToLink(currentOps, legacyLink, singularityId)]
            ELSE [skip |-> FALSE,
                  ops |-> updateObsidianLinkById(currentOps, noteTitle, obsidianUrl,
                                                 singularityId)]

\* The three-step resolution of syncObsidianUrl on the fetched operations:
\* "skip" when the link is up to date, else the operations to PATCH.
ResolveLink(currentOps, noteTitle, obsidianUrl, singularityId) ==
    LET existingById == findObsidianLinkById(currentOps, singularityId)
        legacyLink   == findAnyObsidianLink(currentOps)
    IN IF existingById # 0
       THEN IF extractBaseUrl(currentOps[existingById]) = obsidianUrl
            THEN [skip |-> TRUE, ops |-> currentOps]
            ELSE [skip |-> FALSE,
                  ops |-> updateObsidianLinkById(currentOps, noteTitle, obsidianUrl,
                                                 singularityId)]
       ELSE IF legacyLink # 0
            THEN [skip |-> FALSE, ops |-> addSidToLink(currentOps, legacyLink, singularityId)]
            ELSE [skip |-> FALSE,
                  ops |-> updateObsidianLinkById(currentOps, noteTitle, obsidianUrl,
                                                 singularityId)]

\* api.getNote answers; the link is resolved on the parsed content
GetNoteOk(p) ==
    /\ requestSends
    /\ proc[p].pc = "note"
    /\ LET run        == proc[p]
           content    == remote[TaskOf(run)].content
           currentOps == parseNoteContent(content)
           out        == ResolveLink(currentOps, Basename(run.path),
                                     buildObsidianUrl(run.path), run.sid)
       IN IF SpreadThrows(content)
          THEN Abandon(p) /\ UNCHANGED <<nsync, raced>>
          ELSE IF out.skip
          THEN LET done == [run EXCEPT !.ndone = @ + 1]
                   res  == Resolve(done, run.i + 1, notePath[run.note], nextSid)
               IN /\ Continue(p, res, done, issued)
                  /\ nsync' = [nsync EXCEPT ![RefOf(run)] = Cap2(@ + 1)]
                  /\ UNCHANGED raced
          ELSE /\ proc' = [proc EXCEPT ![p].pc = "patch", ![p].ops = currentOps,
                             ![p].delta = out.ops]
               /\ raced' = IF Racing(p, RefOf(run)) THEN raced \cup {RefOf(run)} ELSE raced
               /\ UNCHANGED <<nextSid, issued, nsync, lastRun>>
    /\ UNCHANGED <<notePath, fileFm, cacheFm, remote, runs, fails, renames, taskCache>>

\* api.updateTaskNote answers: the task's note now holds the PATCHed operations,
\* and syncObsidianUrl goes on to this.plugin.cache.invalidateTask(taskId)
PatchOk(p) ==
    /\ requestSends
    /\ proc[p].pc = "patch"
    /\ LET run  == proc[p]
           done == [run EXCEPT !.ndone = @ + 1, !.npatch = @ + 1]
           res  == Resolve(done, run.i + 1, notePath[run.note], nextSid)
       IN /\ remote' = [remote EXCEPT ![TaskOf(run)] =
                           [hasNote |-> TRUE, content |-> Serialize(run.delta)]]
          /\ Continue(p, res, done, issued)
          /\ nsync' = [nsync EXCEPT ![RefOf(run)] = Cap2(@ + 1)]
          /\ taskCache' = invalidateTask(taskCache, TaskOf(run))
    /\ UNCHANGED <<notePath, fileFm, cacheFm, runs, fails, renames, raced>>

\* metadataCache catches up with the file
CacheRefresh(n) ==
    /\ cacheFm[n] # fileFm[n]
    /\ cacheFm' = [cacheFm EXCEPT ![n] = fileFm[n]]
    /\ UNCHANGED <<notePath, fileFm, remote, proc, nextSid, runs, fails, renames,
                   issued, nsync, lastRun, raced>>

SyncInit ==
    /\ notePath = [n \in Notes |->
                     IF n = "n1" THEN "a.md" ELSE IF n = "n2" THEN "b.md" ELSE "e.md"]
    /\ \E sids \in InitSids, second \in Tasks :
          fileFm = [n \in Notes |->
                      IF n = "n1"
                      THEN << TextField,
                              MaybeSid(RefUrl("T1"), sids[<<"n1", 2>>]),
                              MaybeSid(RefUrl(second), sids[<<"n1", 3>>]) >>
                      ELSE IF n = "n2"
                      THEN << BadUrl, MaybeSid(RefUrl("T1"), sids[<<"n2", 2>>]) >>
                      ELSE << TextField >>]
    /\ cacheFm = fileFm
    /\ \E body \in InitBodies :
          remote = [t \in Tasks |->
                      IF t = "T1" THEN body
                      ELSE [hasNote |-> FALSE, content |-> Serialize(<< >>)]]
    /\ proc = [p \in Procs |-> IdleProc]
    /\ nextSid = FirstFreshSid
    /\ runs = 0
    /\ fails = 0
    /\ renames = 0
    /\ issued = [r \in Refs |-> {}]
    /\ nsync = [r \in Refs |-> 0]
    /\ lastRun = NoRun
    /\ raced = {}

\* The vault before any synchronization: no field carries an identifier, T1
\* has a note without links, T2 has none
SyncFresh ==
    /\ notePath = [n \in Notes |->
                     IF n = "n1" THEN "a.md" ELSE IF n = "n2" THEN "b.md" ELSE "e.md"]
    /\ fileFm = [n \in Notes |->
                   IF n = "n1" THEN << TextField, RefUrl("T1"), RefUrl("T2") >>
                   ELSE IF n = "n2" THEN << BadUrl, RefUrl("T1") >>
                   ELSE << TextField >>]
    /\ cacheFm = fileFm
    /\ remote = [t \in Tasks |->
                   IF t = "T1"
                   THEN [hasNote |-> TRUE,
                         content |-> Serialize(<< BoldOp(<<"text">>), PlainOp(Newline) >>)]
                   ELSE [hasNote |-> FALSE, content |-> Serialize(<< >>)]]
    /\ proc = [p \in Procs |-> IdleProc]
    /\ nextSid = FirstFreshSid
    /\ runs = 0
    /\ fails = 0
    /\ renames = 0
    /\ issued = [r \in Refs |-> {}]
    /\ nsync = [r \in Refs |-> 0]
    /\ lastRun = NoRun
    /\ raced = {}

SyncIdle ==
    /\ notePath = [n \in Notes |-> "e.md"]
    /\ fileFm = [n \in Notes |-> << >>]
    /\ cacheFm = fileFm
    /\ remote = [t \in Tasks |-> [hasNote |-> FALSE, content |-> Serialize(<< >>)]]
    /\ proc = [p \in Procs |-> IdleProc]
    /\ nextSid = FirstFreshSid
    /\ runs = 0
    /\ fails = 0
    /\ renames = 0
    /\ issued = [r \in Refs |-> {}]
    /\ nsync = [r \in Refs |-> 0]
    /\ lastRun = NoRun
    /\ raced = {}

-----------------------------------------------------------------------------
(* TaskCache *)

MaxTime == 1
MaxEdits == 1
MaxCacheFails == 1
\* cacheTTL * 60 * 1000: a minute is one unit of the model's clock
Minute == 1

Projects == {"P1"}
Callers == {1, 2}
TTLs == {0, 1}
\* the requests of Promise.all in getTaskData
Requests == {"assign", "statuses", "tags"}
\* the tasks someone changes in the remote store
Edited == {"T1"}

\* task.projectId
ProjectOf(t) == "P1"

\* A slip that lets an entry expire one unit late.
isExpiredLate(timestamp) == now - timestamp > cacheTTL * Minute + 1

isExpired(timestamp) == now - timestamp > cacheTTL * Minute

\* cached && !this.isExpired(cached.timestamp)
Fresh(entry) == entry.has /\ ~isExpired(entry.timestamp)

IdleCall == [pc |-> "idle", task |-> "none", data |-> 0, asked |-> {},
             pending |-> {}, rejected |-> FALSE]
NoRet == [kind |-> "none", task |-> "none", data |-> 0]
Ret(kind, t, data) == [kind |-> kind, task |-> t, data |-> data]

CacheFrame == UNCHANGED <<edVars, stVars, syncVars, intakeVars, scanVars, apiVars>>

\* getTaskData(taskId) is called: an unexpired entry is returned as it is,
\* otherwise the task is requested
GetTaskData(c, t) ==
    /\ call[c].pc = "idle"
    /\ IF Fresh(taskCache[t])
       THEN /\ ret' = [ret EXCEPT ![c] = Ret("hit", t, taskCache[t].data)]
            /\ UNCHANGED call
       ELSE /\ call' = [call EXCEPT ![c] = [IdleCall EXCEPT !.pc = "task", !.task = t]]
            /\ UNCHANGED ret
    /\ cleared' = FALSE
    /\ UNCHANGED <<now, cacheTTL, taskCache, kanbanCache, tagsCache, srv, cacheFails>>

\* A slip that requests all three whenever the task entry was missed.
TaskFetchedAll(c) ==
    /\ call[c].pc = "task"
    /\ call' = [call EXCEPT ![c].pc = "rest", ![c].data = srv[call[c].task],
                            ![c].asked = Requests, ![c].pending = Requests]
    /\ UNCHANGED <<now, cacheTTL, taskCache, kanbanCache, tagsCache, srv, ret, cacheFails, cleared>>

\* api.getTask answers; Promise.all starts its three calls: the status
\* assignment is requested, the status set and the tags unless cached
TaskFetched(c) ==
    /\ requestSends
    /\ call[c].pc = "task"
    /\ LET t == call[c].task
           pending == {"assign"}
                      \cup (IF Fresh(kanbanCache[ProjectOf(t)]) THEN {} ELSE {"statuses"})
                      \cup (IF Fresh(tagsCache) THEN {} ELSE {"tags"})
       IN call' = [call EXCEPT ![c].pc = "rest", ![c].data = srv[t],
                               ![c].asked = pending, ![c].pending = pending]
    /\ UNCHANGED <<now, cacheTTL, taskCache, kanbanCache, tagsCache, srv, ret, cacheFails, cleared>>

\* api.getTask rejects: getTaskData rejects
TaskFetchFail(c) ==
    /\ requestSends
    /\ call[c].pc = "task"
    /\ cacheFails < MaxCacheFails
    /\ cacheFails' = cacheFails + 1
    /\ call' = [call EXCEPT ![c] = IdleCall]
    /\ ret' = [ret EXCEPT ![c] = Ret("rejected", call[c].task, 0)]
    /\ UNCHANGED <<now, cacheTTL, taskCache, kanbanCache, tagsCache, srv, cleared>>

\* A slip that stores the record with the last answer even after a rejection.
RestFetchedAnyway(c, k) ==
    /\ call[c].pc = "rest"
    /\ k \in call[c].pending
    /\ LET t == call[c].task
           left == call[c].pending \ {k}
       IN /\ kanbanCache' = IF k = "statuses"
                            THEN [kanbanCache EXCEPT ![ProjectOf(t)] = Entry(0, now)]
                            ELSE kanbanCache
          /\ tagsCache' = IF k = "tags" THEN Entry(0, now) ELSE tagsCache
          /\ taskCache' = IF left = {}
                          THEN [taskCache EXCEPT ![t] = Entry(call[c].data, now)]
                          ELSE taskCache
          /\ call' = [call EXCEPT ![c] = IF left = {} THEN IdleCall
                                         ELSE [@ EXCEPT !.pending = left]]
          /\ ret' = IF left = {} /\ ~call[c].rejected
                    THEN [ret EXCEPT ![c] = Ret("fetched", t, call[c].data)]
                    ELSE ret
    /\ UNCHANGED <<now, cacheTTL, srv, cacheFails, cleared>>

\* One of the requests of Promise.all answers: getKanbanStatuses and getTags
\* store what they fetched; with the last answer, unless one has rejected,
\* getTaskData stores the record and returns it
RestFetched(c, k) ==
    /\ requestSends
    /\ call[c].pc = "rest"
    /\ k \in call[c].pending
    /\ LET t == call[c].task
           left == call[c].pending \ {k}
           finished == left = {} /\ ~call[c].rejected
       IN /\ kanbanCache' = IF k = "statuses"
                            THEN [kanbanCache EXCEPT ![ProjectOf(t)] = Entry(0, now)]
                            ELSE kanbanCache
          /\ tagsCache' = IF k = "tags" THEN Entry(0, now) ELSE tagsCache
          /\ taskCache' = IF finished
                          THEN [taskCache EXCEPT ![t] = Entry(call[c].data, now)]
                          ELSE taskCache
          /\ call' = [call EXCEPT ![c] = IF left = {} THEN IdleCall
                                         ELSE [@ EXCEPT !.pending = left]]
          /\ ret' = IF finished
                    THEN [ret EXCEPT ![c] = Ret("fetched", t, call[c].data)]
                    ELSE ret
    /\ UNCHANGED <<now, cacheTTL, srv, cacheFails, cleared>>

\* One of the requests of Promise.all rejects: getTaskData rejects at the
\* first rejection; the other requests stay in flight
RestFetchFail(c, k) ==
    /\ requestSends
    /\ call[c].pc = "rest"
    /\ k \in call[c].pending
    /\ cacheFails < MaxCacheFails
    /\ cacheFails' = cacheFails + 1
    /\ LET left == call[c].pending \ {k}
       IN /\ call' = [call EXCEPT ![c] = IF left = {} THEN IdleCall
                                         ELSE [@ EXCEPT !.pending = left,
                                                        !.rejected = TRUE]]
          /\ ret' = IF call[c].rejected THEN ret
                    ELSE [ret EXCEPT ![c] = Ret("rejected", call[c].task, 0)]
    /\ UNCHANGED <<now, cacheTTL, taskCache, kanbanCache, tagsCache, srv, cleared>>

\* api.getTask was called without a token: request() threw before requestUrl
\* and getTaskData rejects
TokenMissingCall(c) ==
    /\ ~requestSends
    /\ call[c].pc = "task"
    /\ call' = [call EXCEPT ![c] = IdleCall]
    /\ ret' = [ret EXCEPT ![c] = Ret("rejected", call[c].task, 0)]
    /\ UNCHANGED <<now, cacheTTL, taskCache, kanbanCache, tagsCache, srv, cacheFails,
                   cleared>>

\* (the maintenance calls below are left out where they would change nothing:
\* such a call is a stuttering step)
InvalidateTask(t) ==
    /\ taskCache[t].has
    /\ taskCache' = invalidateTask(taskCache, t)
    /\ UNCHANGED <<now, cacheTTL, kanbanCache, tagsCache, srv, call, ret, cacheFails, cleared>>

\* A slip that forgets the tags.
InvalidateAllButTags ==
    /\ taskCache' = [t \in Tasks |-> NoEntry]
    /\ kanbanCache' = [q \in Projects |-> NoEntry]
    /\ cleared' = TRUE
    /\ UNCHANGED <<now, cacheTTL, tagsCache, srv, call, ret, cacheFails>>

\* invalidateAll(), the refresh-cache command
InvalidateAll ==
    /\ taskCache' = [t \in Tasks |-> NoEntry]
    /\ kanbanCache' = [q \in Projects |-> NoEntry]
    /\ tagsCache' = NoEntry
    /\ cleared' = TRUE
    /\ UNCHANGED <<now, cacheTTL, srv, call, ret, cacheFails>>

SetCacheTTL(ttl) ==
    /\ ttl # cacheTTL
    /\ cacheTTL' = ttl
    /\ UNCHANGED <<now, taskCache, kanbanCache, tagsCache, srv, call, ret, cacheFails, cleared>>

\* setLanguage clears the task entries
SetLanguage ==
    /\ \E t \in Tasks : taskCache[t].has
    /\ taskCache' = [t \in Tasks |-> NoEntry]
    /\ UNCHANGED <<now, cacheTTL, kanbanCache, tagsCache, srv, call, ret, cacheFails, cleared>>

\* time passes
Tick ==
    /\ now < MaxTime
    /\ now' = now + 1
    /\ UNCHANGED <<cacheTTL, taskCache, kanbanCache, tagsCache, srv, call, ret, cacheFails, cleared>>

\* the task is changed in the remote store
RemoteEdit(t) ==
    /\ t \in Edited
    /\ srv[t] < MaxEdits
    /\ srv' = [srv EXCEPT ![t] = @ + 1]
    /\ UNCHANGED <<now, cacheTTL, taskCache, kanbanCache, tagsCache, call, ret, cacheFails, cleared>>

\* new TaskCache(api, cacheTTL, language)
CacheInit ==
    /\ now = 0
    /\ cacheTTL \in TTLs
    /\ taskCache = [t \in Tasks |-> NoEntry]
    /\ kanbanCache = [q \in Projects |-> NoEntry]
    /\ tagsCache = NoEntry
    /\ srv = [t \in Tasks |-> 0]
    /\ call = [c \in Callers |-> IdleCall]
    /\ ret = [c \in Callers |-> NoRet]
    /\ cacheFails = 0
    /\ cleared = FALSE

CacheIdle ==
    /\ now = 0
    /\ cacheTTL = 1
    /\ taskCache = [t \in Tasks |-> NoEntry]
    /\ kanbanCache = [q \in Projects |-> NoEntry]
    /\ tagsCache = NoEntry
    /\ srv = [t \in Tasks |-> 0]
    /\ call = [c \in Callers |-> IdleCall]
    /\ ret = [c \in Callers |-> NoRet]
    /\ cacheFails = 0
    /\ cleared = FALSE

\* The cache at rest after the view has asked for every task's record
CacheHeld ==
    /\ now = 0
    /\ cacheTTL = 1
    /\ taskCache = [t \in Tasks |-> Entry(0, 0)]
    /\ kanbanCache = [q \in Projects |-> Entry(0, 0)]
    /\ tagsCache = Entry(0, 0)
    /\ srv = [t \in Tasks |-> 0]
    /\ call = [c \in Callers |-> IdleCall]
    /\ ret = [c \in Callers |-> NoRet]
    /\ cacheFails = 0
    /\ cleared = FALSE

-----------------------------------------------------------------------------
(* ObsidianLinkSync: change intake *)

MaxSignals == 3
\* debounce(cb, 2000, true): the timeout, in seconds
Window == 2

Files == {"a.md", "b.md", "c.png"}

\* file.extension
extension(f) == IF f = "c.png" THEN "png" ELSE "md"

NoSig == [kind |-> "none", file |-> "none", auto |-> FALSE]

IntakeFrame == UNCHANGED <<edVars, stVars, syncVars, cacheVars, scanVars, apiVars>>

\* this.syncFile(file) is called
syncFileCalled(f) == starts' = [starts EXCEPT ![f] = @ + 1]

\* A slip that runs the call at once when no timeout is held, and again
\* when the timeout fires.
syncDebouncedLeading(f) ==
    /\ args' = f
    /\ age' = 0
    /\ IF timer
       THEN /\ runAt' = Window
            /\ UNCHANGED <<timer, due, starts>>
       ELSE /\ timer' = TRUE
            /\ due' = Window
            /\ syncFileCalled(f)
            /\ UNCHANGED runAt

\* The debounced function of the host, called with a file: the file is kept
\* as the argument to run with; while a timeout is held the deadline moves
\* to Window from now (resetTimer), otherwise a timeout of Window starts.
\* The callback does not run in the call.
syncDebounced(f) ==
    /\ args' = f
    /\ age' = 0
    /\ IF timer
       THEN /\ runAt' = Window
            /\ UNCHANGED <<timer, due>>
       ELSE /\ timer' = TRUE
            /\ due' = Window
            /\ UNCHANGED runAt
    /\ UNCHANGED starts

\* A slip that lets files of any extension through.
OnFileModifiedAny(f) ==
    /\ nsig < MaxSignals
    /\ nsig' = nsig + 1
    /\ lastSig' = [kind |-> "modify", file |-> f, auto |-> autoSync]
    /\ IF ~autoSync
       THEN UNCHANGED <<timer, due, runAt, args, age, starts>>
       ELSE syncDebounced(f)
    /\ UNCHANGED autoSync

\* vault 'modify' event: onFileModified(file)
OnFileModified(f) ==
    /\ nsig < MaxSignals
    /\ nsig' = nsig + 1
    /\ lastSig' = [kind |-> "modify", file |-> f, auto |-> autoSync]
    /\ IF ~autoSync
       THEN UNCHANGED <<timer, due, runAt, args, age, starts>>
       ELSE IF extension(f) # "md"
            THEN UNCHANGED <<timer, due, runAt, args, age, starts>>
            ELSE syncDebounced(f)
    /\ UNCHANGED autoSync

\* A slip that sends the rename through the debouncer.
OnFileRenamedDebounced(f) ==
    /\ nsig < MaxSignals
    /\ nsig' = nsig + 1
    /\ lastSig' = [kind |-> "rename", file |-> f, auto |-> autoSync]
    /\ IF ~autoSync
       THEN UNCHANGED <<timer, due, runAt, args, age, starts>>
       ELSE IF extension(f) # "md"
            THEN UNCHANGED <<timer, due, runAt, args, age, starts>>
            ELSE syncDebounced(f)
    /\ UNCHANGED autoSync

\* vault 'rename' event: onFileRenamed(file)
OnFileRenamed(f) ==
    /\ nsig < MaxSignals
    /\ nsig' = nsig + 1
    /\ lastSig' = [kind |-> "rename", file |-> f, auto |-> autoSync]
    /\ IF ~autoSync
       THEN UNCHANGED <<timer, due, runAt, args, age, starts>>
       ELSE IF extension(f) # "md"
            THEN UNCHANGED <<timer, due, runAt, args, age, starts>>
            ELSE /\ syncFileCalled(f)
                 /\ UNCHANGED <<timer, due, runAt, args, age>>
    /\ UNCHANGED autoSync

\* The debouncer's timeout fires: with a postponed deadline still ahead it
\* waits for it, otherwise it runs the callback with the kept argument
TimerFire ==
    /\ timer
    /\ due = 0
    /\ IF runAt > 0
       THEN /\ due' = runAt
            /\ runAt' = 0
            /\ UNCHANGED <<timer, args, starts>>
       ELSE /\ timer' = FALSE
            /\ args' = "none"
            /\ syncFileCalled(args)
            /\ UNCHANGED <<due, runAt>>
    /\ UNCHANGED <<autoSync, age, nsig, lastSig>>

\* a second passes; a timeout that is due fires first
IntakeTick ==
    /\ ~(timer /\ due = 0)
    /\ (timer \/ runAt > 0 \/ age < Window)
    /\ due' = IF timer THEN due - 1 ELSE due
    /\ runAt' = IF runAt > 0 THEN runAt - 1 ELSE 0
    /\ age' = IF age < Window THEN age + 1 ELSE age
    /\ UNCHANGED <<autoSync, timer, args, starts, nsig, lastSig>>

\* the Auto-sync toggle of the settings tab
SetAutoSync ==
    /\ autoSync' = ~autoSync
    /\ UNCHANGED <<timer, due, runAt, args, age, starts, nsig, lastSig>>

IntakeInit ==
    /\ autoSync \in BOOLEAN
    /\ timer = FALSE
    /\ due = 0
    /\ runAt = 0
    /\ args = "none"
    /\ age = Window
    /\ starts = [f \in Files |-> 0]
    /\ nsig = 0
    /\ lastSig = NoSig

IntakeIdle ==
    /\ autoSync = TRUE
    /\ timer = FALSE
    /\ due = 0
    /\ runAt = 0
    /\ args = "none"
    /\ age = Window
    /\ starts = [f \in Files |-> 0]
    /\ nsig = 0
    /\ lastSig = NoSig

-----------------------------------------------------------------------------
(* Specifications *)

\* Overlapping runs: any of the run slots may act
Init ==
    SyncInit /\ EdIdle /\ StIdle /\ CacheIdle /\ IntakeIdle /\ ScanIdle /\ ApiReady

Next ==
    \/ (\E p \in Procs, n \in Notes : StartSync(p, n)) /\ UNCHANGED <<edVars, stVars, cacheVars, intakeVars, scanVars, apiVars>>
    \/ (\E p \in Procs, n \in Notes : Rename(p, n)) /\ UNCHANGED <<edVars, stVars, cacheVars, intakeVars, scanVars, apiVars>>
    \/ (\E p \in Procs : FmWrite(p)) /\ UNCHANGED <<edVars, stVars, cacheVars, intakeVars, scanVars, apiVars>>
    \/ (\E p \in Procs : FmFail(p)) /\ UNCHANGED <<edVars, stVars, cacheRest, intakeVars, scanVars, apiVars>>
    \/ (\E p \in Procs : GetTaskOk(p)) /\ UNCHANGED <<edVars, stVars, cacheVars, intakeVars, scanVars, apiVars>>
    \/ (\E p \in Procs : GetTaskFail(p)) /\ UNCHANGED <<edVars, stVars, cacheRest, intakeVars, scanVars, apiVars>>
    \/ (\E p \in Procs : GetNoteOk(p)) /\ UNCHANGED <<edVars, stVars, cacheRest, intakeVars, scanVars, apiVars>>
    \/ (\E p \in Procs : GetNoteFail(p)) /\ UNCHANGED <<edVars, stVars, cacheRest, intakeVars, scanVars, apiVars>>
    \/ (\E p \in Procs : PatchOk(p)) /\ UNCHANGED <<edVars, stVars, cacheRest, intakeVars, scanVars, apiVars>>
    \/ (\E p \in Procs : PatchFail(p)) /\ UNCHANGED <<edVars, stVars, cacheRest, intakeVars, scanVars, apiVars>>
    \/ (\E n \in Notes : CacheRefresh(n)) /\ UNCHANGED <<edVars, stVars, cacheVars, intakeVars, scanVars, apiVars>>

Spec == Init /\ [][Next]_vars

\* One run at a time: each syncFile call completes before the next starts
NextSeq ==
    \/ (\E n \in Notes : StartSync(1, n)) /\ UNCHANGED <<edVars, stVars, cacheVars, intakeVars, scanVars, apiVars>>
    \/ (\E n \in Notes : Rename(1, n)) /\ UNCHANGED <<edVars, stVars, cacheVars, intakeVars, scanVars, apiVars>>
    \/ FmWrite(1) /\ UNCHANGED <<edVars, stVars, cacheVars, intakeVars, scanVars, apiVars>>
    \/ FmFail(1) /\ UNCHANGED <<edVars, stVars, cacheRest, intakeVars, scanVars, apiVars>>
    \/ GetTaskOk(1) /\ UNCHANGED <<edVars, stVars, cacheVars, intakeVars, scanVars, apiVars>>
    \/ GetTaskFail(1) /\ UNCHANGED <<edVars, stVars, cacheRest, intakeVars, scanVars, apiVars>>
    \/ GetNoteOk(1) /\ UNCHANGED <<edVars, stVars, cacheRest, intakeVars, scanVars, apiVars>>
    \/ GetNoteFail(1) /\ UNCHANGED <<edVars, stVars, cacheRest, intakeVars, scanVars, apiVars>>
    \/ PatchOk(1) /\ UNCHANGED <<edVars, stVars, cacheRest, intakeVars, scanVars, apiVars>>
    \/ PatchFail(1) /\ UNCHANGED <<edVars, stVars, cacheRest, intakeVars, scanVars, apiVars>>
    \/ (\E n \in Notes : CacheRefresh(n)) /\ UNCHANGED <<edVars, stVars, cacheVars, intakeVars, scanVars, apiVars>>

SpecSeq == Init /\ [][NextSeq]_vars

\* One run at a time, started with every task's record in the cache
InitWrite ==
    SyncInit /\ EdIdle /\ StIdle /\ CacheHeld /\ IntakeIdle /\ ScanIdle /\ ApiReady

SpecWrite == InitWrite /\ [][NextSeq]_vars

\* Runs and getTaskData calls with and without a configured credential
InitToken ==
    SyncFresh /\ EdIdle /\ StIdle /\ CacheIdle /\ IntakeIdle /\ ScanIdle /\ token \in Tokens

NextToken ==
    \/ (\E n \in Notes : StartSync(1, n)) /\ UNCHANGED <<edVars, stVars, cacheVars, intakeVars, scanVars, apiVars>>
    \/ FmWrite(1) /\ UNCHANGED <<edVars, stVars, cacheVars, intakeVars, scanVars, apiVars>>
    \/ GetTaskOk(1) /\ UNCHANGED <<edVars, stVars, cacheVars, intakeVars, scanVars, apiVars>>
    \/ GetNoteOk(1) /\ UNCHANGED <<edVars, stVars, cacheRest, intakeVars, scanVars, apiVars>>
    \/ PatchOk(1) /\ UNCHANGED <<edVars, stVars, cacheRest, intakeVars, scanVars, apiVars>>
    \/ TokenMissing(1) /\ UNCHANGED <<edVars, stVars, cacheRest, intakeVars, scanVars, apiVars>>
    \/ (\E n \in Notes : CacheRefresh(n)) /\ UNCHANGED <<edVars, stVars, cacheVars, intakeVars, scanVars, apiVars>>
    \/ (\E t \in Tasks : GetTaskData(1, t)) /\ CacheFrame
    \/ TaskFetched(1) /\ CacheFrame
    \/ (\E k \in Requests : RestFetched(1, k)) /\ CacheFrame
    \/ TokenMissingCall(1) /\ CacheFrame

SpecToken == InitToken /\ [][NextToken]_vars

\* api.updateTaskNote answers while getTaskData calls are in flight: the PATCH
\* has changed the task in the remote store (its note), and the entry of the
\* task is dropped
PatchOkStored(p) ==
    /\ PatchOk(p)
    /\ srv[TaskOf(proc[p])] < MaxEdits
    /\ srv' = [srv EXCEPT ![TaskOf(proc[p])] = @ + 1]
    /\ UNCHANGED <<now, cacheTTL, kanbanCache, tagsCache, call, ret, cacheFails, cleared>>

\* A run of the synchronizer next to getTaskData calls of the views, every
\* request answering
InitStale ==
    SyncFresh /\ EdIdle /\ StIdle /\ CacheIdle /\ IntakeIdle /\ ScanIdle /\ ApiReady

NextStale ==
    \/ (\E n \in Notes : StartSync(1, n)) /\ UNCHANGED <<edVars, stVars, cacheVars, intakeVars, scanVars, apiVars>>
    \/ FmWrite(1) /\ UNCHANGED <<edVars, stVars, cacheVars, intakeVars, scanVars, apiVars>>
    \/ GetTaskOk(1) /\ UNCHANGED <<edVars, stVars, cacheVars, intakeVars, scanVars, apiVars>>
    \/ GetNoteOk(1) /\ UNCHANGED <<edVars, stVars, cacheRest, intakeVars, scanVars, apiVars>>
    \/ PatchOkStored(1) /\ UNCHANGED <<edVars, stVars, intakeVars, scanVars, apiVars>>
    \/ (\E n \in Notes : CacheRefresh(n)) /\ UNCHANGED <<edVars, stVars, cacheVars, intakeVars, scanVars, apiVars>>
    \/ (\E t \in Tasks : GetTaskData(1, t)) /\ CacheFrame
    \/ TaskFetched(1) /\ CacheFrame
    \/ (\E k \in Requests : RestFetched(1, k)) /\ CacheFrame

SpecStale == InitStale /\ [][NextStale]_vars

\* The user saves a note: the one edit the runs below follow from
UserEdit(f) ==
    /\ nsig = 0
    /\ OnFileModified(f)

\* The debouncer's timeout fires; when it runs the callback, syncFile starts
\* for the kept file: the first call on run 1, the later ones on run 2
TimerFireSync ==
    /\ TimerFire
    /\ IF runAt > 0
       THEN UNCHANGED syncVars
       ELSE \E n \in Notes :
               /\ notePath[n] = args
               /\ StartSync(IF runs = 0 THEN 1 ELSE 2, n)

\* processFrontMatter writes the field: a write that changes the file raises
\* the vault's modify event for it
FmWriteSignal(p) ==
    /\ FmWrite(p)
    /\ IF fileFm' # fileFm
       THEN OnFileModified(notePath[proc[p].note])
       ELSE UNCHANGED intakeVars

\* One user edit with auto-sync on, the synchronizer's own writes coming back
\* as modify signals, every request answering
InitLoop ==
    SyncFresh /\ EdIdle /\ StIdle /\ CacheIdle /\ IntakeIdle /\ ScanIdle /\ ApiReady

NextLoop ==
    \/ (\E f \in Files : UserEdit(f)) /\ IntakeFrame
    \/ IntakeTick /\ IntakeFrame
    \/ TimerFireSync /\ UNCHANGED <<edVars, stVars, cacheVars, scanVars, apiVars>>
    \/ (\E p \in Procs : FmWriteSignal(p)) /\ UNCHANGED <<edVars, stVars, cacheVars, scanVars, apiVars>>
    \/ (\E p \in Procs : GetTaskOk(p)) /\ UNCHANGED <<edVars, stVars, cacheVars, intakeVars, scanVars, apiVars>>
    \/ (\E p \in Procs : GetNoteOk(p)) /\ UNCHANGED <<edVars, stVars, cacheRest, intakeVars, scanVars, apiVars>>
    \/ (\E p \in Procs : PatchOk(p)) /\ UNCHANGED <<edVars, stVars, cacheRest, intakeVars, scanVars, apiVars>>
    \/ (\E n \in Notes : CacheRefresh(n)) /\ UNCHANGED <<edVars, stVars, cacheVars, intakeVars, scanVars, apiVars>>

SpecLoop == InitLoop /\ [][NextLoop]_vars

\* The link editor on drawn inputs
InitEditor ==
    EdInit /\ StIdle /\ SyncIdle /\ CacheIdle /\ IntakeIdle /\ ScanIdle /\ ApiReady

NextEditor ==
    \/ EdApply /\ UNCHANGED <<stVars, syncVars, cacheVars, intakeVars, scanVars, apiVars>>
    \/ EdAppend /\ UNCHANGED <<stVars, syncVars, cacheVars, intakeVars, scanVars, apiVars>>

SpecEditor == InitEditor /\ [][NextEditor]_vars

\* The status resolution on drawn inputs
InitStatus ==
    StInit /\ EdIdle /\ SyncIdle /\ CacheIdle /\ IntakeIdle /\ ScanIdle /\ ApiReady

NextStatus ==
    \/ StResolve /\ UNCHANGED <<edVars, syncVars, cacheVars, intakeVars, scanVars, apiVars>>
    \/ StResolveInline /\ UNCHANGED <<edVars, syncVars, cacheVars, intakeVars, scanVars, apiVars>>

SpecStatus == InitStatus /\ [][NextStatus]_vars

\* The task cache, one getTaskData call at a time
InitCache ==
    CacheInit /\ EdIdle /\ StIdle /\ SyncIdle /\ IntakeIdle /\ ScanIdle /\ ApiReady

NextCache ==
    \/ (\E t \in Tasks : GetTaskData(1, t)) /\ CacheFrame
    \/ TaskFetched(1) /\ CacheFrame
    \/ TaskFetchFail(1) /\ CacheFrame
    \/ (\E k \in Requests : RestFetched(1, k)) /\ CacheFrame
    \/ (\E k \in Requests : RestFetchFail(1, k)) /\ CacheFrame
    \/ (\E t \in Tasks : InvalidateTask(t)) /\ CacheFrame
    \/ InvalidateAll /\ CacheFrame
    \/ (\E ttl \in TTLs : SetCacheTTL(ttl)) /\ CacheFrame
    \/ SetLanguage /\ CacheFrame
    \/ Tick /\ CacheFrame
    \/ (\E t \in Tasks : RemoteEdit(t)) /\ CacheFrame

SpecCache == InitCache /\ [][NextCache]_vars

\* The task cache with overlapping getTaskData calls whose requests all
\* answer, and no maintenance
NextRace ==
    \/ (\E c \in Callers, t \in Tasks : GetTaskData(c, t)) /\ CacheFrame
    \/ (\E c \in Callers : TaskFetched(c)) /\ CacheFrame
    \/ (\E c \in Callers, k \in Requests : RestFetched(c, k)) /\ CacheFrame
    \/ Tick /\ CacheFrame
    \/ (\E t \in Tasks : RemoteEdit(t)) /\ CacheFrame

SpecRace == InitCache /\ [][NextRace]_vars

\* The change intake: signals, the debouncer's timeout, the settings toggle
InitIntake ==
    IntakeInit /\ EdIdle /\ StIdle /\ SyncIdle /\ CacheIdle /\ ScanIdle /\ ApiReady

NextIntake ==
    \/ (\E f \in Files : OnFileModified(f)) /\ IntakeFrame
    \/ (\E f \in Files : OnFileRenamed(f)) /\ IntakeFrame
    \/ TimerFire /\ IntakeFrame
    \/ IntakeTick /\ IntakeFrame
    \/ SetAutoSync /\ IntakeFrame

SpecIntake == InitIntake /\ [][NextIntake]_vars

\* Reference discovery on drawn frontmatter trees
InitScan ==
    ScanInit /\ EdIdle /\ StIdle /\ SyncIdle /\ CacheIdle /\ IntakeIdle /\ ApiReady

NextScan ==
    ScanApply /\ UNCHANGED <<edVars, stVars, syncVars, cacheVars, intakeVars, apiVars>>

SpecScan == InitScan /\ [][NextScan]_vars


-----------------------------------------------------------------------------
(* Properties *)

AllIdle == \A p \in Procs : proc[p].pc = "idle"

\* the identifier the file's field carries, "" when none
FieldSid(r) == extractSidFromUrl(fileFm[r[1]][r[2]])

TaskOfRef(r) == extractTaskId(fileFm[r[1]][r[2]])

\* the operations of a task's body as the store holds them
Body(t) == IF remote[t].hasNote THEN parseNoteContent(remote[t].content) ELSE << >>

LinkIs(op, sid) == HasLink(op) /\ Includes(op.attributes["link"], <<SID_FRAGMENT, sid>>)

\* the positions of the link operations that carry one of the identifiers
LinksOf(ops, sids) == {i \in 1..Len(ops) : \E s \in sids : LinkIs(ops[i], s)}

\* the positions of the links of the note scheme with no #sid= fragment
LegacyLinks(ops) ==
    {i \in 1..Len(ops) :
        /\ HasLink(ops[i])
        /\ ops[i].attributes["link"][1] = "obsidian://"
        /\ \A j \in 1..Len(ops[i].attributes["link"]) :
              ops[i].attributes["link"][j] # SID_FRAGMENT}

AllLinks(ops) == {i \in 1..Len(ops) : HasLink(ops[i])}

Range(f) == {f[x] : x \in DOMAIN f}

(* C1: a second run of syncFile on a note whose fields, path and title did   *)
(* not change since a failure-free first run, with the metadata view up to  *)
(* date and nothing else writing, issues no PATCH.                          *)
C1_Idempotence ==
    \A p \in Procs :
        proc[p].kind = "rerun" => proc[p].pc # "patch" /\ proc[p].npatch = 0

(* C2: when two runs held the fetched body of the same reference at once    *)
(* (both fetched before either PATCHed) and both have finished with no      *)
(* rejected call, the task body holds exactly one link that carries the     *)
(* identifier of the reference's field.                                      *)
C2_NoDuplicationUnderConcurrency ==
    (AllIdle /\ fails = 0) =>
        \A r \in raced :
            Cardinality(LinksOf(Body(TaskOfRef(r)), {FieldSid(r)})) = 1

(* C3: every identifier getOrCreateSingularityId has returned for a          *)
(* reference (its field write not having failed) is the identifier stored   *)
(* in the field's #sid= fragment; so two invocations never return           *)
(* different identifiers unless the first write failed.                     *)
C3_IdentityStability ==
    \A r \in Refs : \A s \in issued[r] : FieldSid(r) = s

(* C4: after any sequence of completed, non-overlapping runs every task     *)
(* body holds at most one link per identifier, and exactly one link for     *)
(* each reference whose synchronization has succeeded.                      *)
C4_OneLinkPerIdentity ==
    AllIdle =>
        /\ \A t \in Tasks : \A s \in Range(Uuids) :
              Cardinality(LinksOf(Body(t), {s})) <= 1
        /\ \A r \in Refs :
              nsync[r] >= 1 =>
                  Cardinality(LinksOf(Body(TaskOfRef(r)), issued[r])) = 1

\* the identifiers that belong to a reference
Owned(r) == issued[r] \cup ({FieldSid(r)} \ {""})

\* no field starts out as a copy of another field's identifier
NoCopiedSid ==
    \A r1, r2 \in Refs :
        (r1 # r2 /\ FieldSid(r1) # "") => FieldSid(r1) # FieldSid(r2)

C5_Distinct ==
    \A r1, r2 \in Refs :
        (r1 # r2 /\ nsync[r1] >= 1 /\ nsync[r2] >= 1) => Owned(r1) \cap Owned(r2) = {}

C5_Separate ==
    AllIdle =>
        \A r1, r2 \in Refs :
            (r1 # r2 /\ TaskOfRef(r1) = TaskOfRef(r2) /\ nsync[r1] = 1 /\ nsync[r2] = 1) =>
                LET ops == Body(TaskOfRef(r1))
                IN /\ Cardinality(LinksOf(ops, issued[r1])) = 1
                   /\ Cardinality(LinksOf(ops, issued[r2])) = 1
                   /\ LinksOf(ops, issued[r1]) \cap LinksOf(ops, issued[r2]) = {}

C5_NoTakeover ==
    \A p \in Procs :
        (proc[p].pc = "patch" /\ remote' # remote) =>
            \A t \in Tasks, r2 \in Refs :
                (t = TaskOf(proc[p]) /\ r2 # RefOf(proc[p])) =>
                    \A i \in LinksOf(Body(t), Owned(r2)) :
                        /\ i <= Len(Body(t)')
                        /\ Body(t)'[i] = Body(t)[i]

C6_LegacyMigration ==
    \A p \in Procs :
        LET run == proc[p]
        IN (run.pc = "patch"
            /\ Cardinality(LegacyLinks(run.ops)) = 1
            /\ LinksOf(run.ops, {run.sid}) = {}) =>
                LET i == CHOOSE x \in LegacyLinks(run.ops) : TRUE
                IN /\ Len(run.delta) = Len(run.ops)
                   /\ \A j \in 1..Len(run.ops) : j # i => run.delta[j] = run.ops[j]
                   /\ run.delta[i].insert = run.ops[i].insert
                   /\ run.delta[i].attributes["link"] =
                         run.ops[i].attributes["link"] \o <<SID_FRAGMENT, run.sid>>
                   /\ Cardinality(AllLinks(run.delta)) = Cardinality(AllLinks(run.ops))

C6_Witness ==
    \E p \in Procs :
        /\ proc[p].pc = "patch"
        /\ Cardinality(LegacyLinks(proc[p].ops)) = 1
        /\ LinksOf(proc[p].ops, {proc[p].sid}) = {}
        /\ Len(proc[p].ops) = 3

(* C7: when updateObsidianLinkById finds an operation with the identifier,   *)
(* the result has the input's length, every other operation is the input's  *)
(* at the same index, and the found operation keeps its other attributes.   *)
C7_NonDestructiveUpdate ==
    LET found == LinksOf(edIn.ops, {edIn.sid})
    IN (edOut.done /\ found # {}) =>
          LET i == CHOOSE x \in found : \A y \in found : x <= y
          IN /\ Len(edOut.ops) = Len(edIn.ops)
             /\ \A j \in 1..Len(edIn.ops) : j # i => edOut.ops[j] = edIn.ops[j]
             /\ DOMAIN edOut.ops[i].attributes = DOMAIN edIn.ops[i].attributes
             /\ \A k \in DOMAIN edIn.ops[i].attributes :
                   k # "link" => edOut.ops[i].attributes[k] = edIn.ops[i].attributes[k]

C7_Witness ==
    /\ edOut.done
    /\ Len(edIn.ops) = 3
    /\ LinksOf(edIn.ops, {edIn.sid}) = {2}
    /\ "bold" \in DOMAIN edIn.ops[2].attributes
    /\ edOut.ops[2].attributes["link"] = edIn.url \o <<SID_FRAGMENT, edIn.sid>>

(* C8: in the run a rename starts for a note that was synchronized before,  *)
(* each reference gets exactly one PATCH, and in the PATCHed body the       *)
(* operation carrying the reference's identifier is where it was, with the  *)
(* URL of the new path and the same identifier.                             *)
C8_RenamePropagation ==
    \A p \in Procs :
        LET run == proc[p]
        IN (run.kind = "rename" /\ run.pre) =>
              /\ ~run.failed => run.npatch = run.ndone
              /\ run.pc = "patch" =>
                    LET s == FieldSid(RefOf(run))
                        i == findObsidianLinkById(run.ops, s)
                    IN /\ s # ""
                       /\ i # 0
                       /\ findObsidianLinkById(run.delta, s) = i
                       /\ run.delta[i].attributes["link"] =
                             buildObsidianUrl(notePath[run.note]) \o <<SID_FRAGMENT, s>>

(* C9: the resolved status follows the precedence cancelled (the fixed      *)
(* cancelled label, never the kanban assignment), then completed (a done    *)
(* status), then the explicit assignment looked up by identifier in the     *)
(* scoped status set, then the set's backlog entry.                         *)
C9_StatusPrecedence ==
    stOut.done =>
        LET s        == stOut.status
            label    == IF stOut.version = "locale"
                        THEN LOCALES(stIn.language).statusCancelled ELSE "Otmenena"
            entries  == Range(stIn.statuses)
            todos    == {k \in 1..Len(stIn.statuses) :
                            stIn.statuses[k].id[Len(stIn.statuses[k].id)] = "TODO"}
        IN /\ stIn.checked = 2 =>
                /\ ~s.isNull /\ s.id = <<"CANCELLED">> /\ s.name = label
           /\ stIn.checked = 1 =>
                /\ ~s.isNull /\ s.id[Len(s.id)] = "DONE"
           /\ (stIn.checked = 0 /\ stIn.assigned # << >>) =>
                LET hit == {e \in entries : e.id = stIn.assigned[1].statusId}
                IN IF hit = {} THEN s.isNull
                   ELSE ~s.isNull /\ [id |-> s.id, name |-> s.name] \in hit
           /\ (stIn.checked = 0 /\ stIn.assigned = << >>) =>
                IF todos = {} THEN s.isNull
                ELSE LET k == CHOOSE x \in todos : \A y \in todos : x <= y
                     IN ~s.isNull /\ s.id = stIn.statuses[k].id
                        /\ s.name = stIn.statuses[k].name

C9_Witness ==
    /\ stOut.done
    /\ stIn.checked = 2
    /\ stIn.assigned # << >>
    /\ \E e \in Range(stIn.statuses) : e.id = stIn.assigned[1].statusId
    /\ stOut.status.id = <<"CANCELLED">>

(* C10: for a completed, not cancelled task the resolved status is the      *)
(* fixed done identifier and label, whatever the scoped status set holds    *)
(* and whether or not the task has an explicit assignment.                  *)
C10_FixedDoneLabel ==
    (stOut.done /\ stIn.checked = 1) =>
        /\ ~stOut.status.isNull
        /\ stOut.status.id = <<"DONE">>
        /\ stOut.status.name = IF stOut.version = "locale"
                               THEN LOCALES(stIn.language).statusDone ELSE "Gotovo"

\* the identifiers generateUUID has returned so far
Generated == {Uuids[k] : k \in FirstFreshSid..(nextSid - 1)}

AllIssued == UNION {issued[r] : r \in Refs}

\* generated identifiers whose field write rejected
Unwritten == Generated \ (AllIssued \cup {proc[p].sid : p \in Procs})

UuidIndex(s) == CHOOSE k \in 1..Len(Uuids) : Uuids[k] = s

(* C14: a run goes on to the task fetch, the body fetch and the PATCH of a   *)
(* reference only under an identifier read from the field or one whose      *)
(* field write did not reject, and no task body ever holds a link carrying  *)
(* a generated identifier whose field write rejected.                       *)
C14_FailedWriteBlocksLink ==
    /\ \A p \in Procs :
          proc[p].pc \in {"task", "note", "patch"} =>
              proc[p].sid \in issued[RefOf(proc[p])]
    /\ \A t \in Tasks : \A s \in Generated \ AllIssued :
          s \notin {proc[p].sid : p \in {q \in Procs : proc[q].pc = "fm"}} =>
              LinksOf(Body(t), {s}) = {}

C14_Witness ==
    /\ AllIdle
    /\ \E s \in Unwritten : \E r \in Refs : \E s2 \in issued[r] :
          /\ UuidIndex(s2) > UuidIndex(s)
          /\ LinksOf(Body(TaskOfRef(r)), {s2}) # {}

(* C20: when getNote answers with a body content that is not a valid        *)
(* operation sequence (text that does not parse, or text that parses to     *)
(* something other than a list), the run goes on to PATCH the fresh link    *)
(* on an empty sequence; the reference does not fail.                       *)
C20_MalformedBody ==
    [][\A p \in Procs :
          (/\ proc[p].pc = "note"
           /\ remote[TaskOf(proc[p])].content.kind # "array"
           /\ fails' = fails
           /\ proc'[p] # proc[p]) =>
              /\ proc'[p].pc = "patch"
              /\ proc'[p].failed = proc[p].failed
              /\ proc'[p].delta = createNoteLinkOps(Basename(proc[p].path),
                                      buildObsidianUrl(proc[p].path), proc[p].sid)]_vars

\* a step in which run p leaves its entry without having finished it
C13_FailStep(p) ==
    /\ proc[p].pc # "idle"
    /\ \/ proc'[p].pc # "idle" /\ proc'[p].i # proc[p].i
          /\ proc'[p].ndone = proc[p].ndone
       \/ proc'[p].pc = "idle" /\ lastRun'.done = proc[p].ndone

C13_AllAttempted ==
    lastRun.note # "none" => lastRun.tried = lastRun.found

C13_FailureLeavesNoTrace ==
    \A p \in Procs :
        C13_FailStep(p) =>
            /\ remote' = remote
            /\ nsync' = nsync
            /\ proc'[p].pc # "idle" =>
                  /\ proc'[p].note = proc[p].note
                  /\ proc'[p].i = NextValid(proc[p].urls, proc[p].i + 1)
            /\ proc'[p].pc = "idle" =>
                  /\ lastRun'.note = proc[p].note
                  /\ NextValid(proc[p].urls, proc[p].i + 1) > Len(proc[p].urls)

(* C13: whichever references of a run fail (identifier write, task fetch,   *)
(* body fetch or PATCH), the run ends normally having attempted every       *)
(* discovered reference; a failing reference changes no task body, and the  *)
(* run goes on with the next reference as it would without the failing one. *)
C13_FailureIsolation ==
    []C13_AllAttempted /\ [][C13_FailureLeavesNoTrace]_vars

C13_Witness ==
    /\ lastRun.note = "n1"
    /\ ~lastRun.clean
    /\ lastRun.found = 2
    /\ lastRun.done = 1
    /\ nsync[<<"n1", 2>>] = 0
    /\ nsync[<<"n1", 3>>] = 1

(* C11: a getTaskData call that finds the task's entry no older than the    *)
(* TTL returns the entry's record and requests nothing; one that finds it   *)
(* older than the TTL requests the task again.                              *)
C11_CacheExpiry ==
    [][\A t \in Tasks :
          (GetTaskData(1, t) /\ taskCache[t].has) =>
              IF now - taskCache[t].timestamp <= cacheTTL * Minute
              THEN /\ ret'[1] = [kind |-> "hit", task |-> t, data |-> taskCache[t].data]
                   /\ call' = call
              ELSE /\ call'[1].pc = "task"
                   /\ call'[1].task = t
                   /\ ret' = ret]_vars

\* an entry was served at an age within the TTL and, once older, is being
\* requested again
C11_Witness ==
    \E t \in Tasks :
        /\ ret[1] = [kind |-> "hit", task |-> t, data |-> taskCache[t].data]
        /\ call[1].pc = "task"
        /\ call[1].task = t
        /\ taskCache[t].has
        /\ now - taskCache[t].timestamp > cacheTTL * Minute

(* C12: a rejection of the task request or of one of the three requests of  *)
(* Promise.all rejects the getTaskData call and leaves the task entries as  *)
(* they are; an entry is only ever written by the last answer of a call in  *)
(* which nothing was rejected.                                              *)
C12_NoPartialRecord ==
    [][/\ (TaskFetchFail(1) \/ \E k \in Requests : RestFetchFail(1, k)) =>
              /\ taskCache' = taskCache
              /\ ret'[1].kind = "rejected"
       /\ \A t \in Tasks :
              (taskCache'[t] # taskCache[t] /\ taskCache'[t].has) =>
                  /\ call[1].pc = "rest"
                  /\ call[1].task = t
                  /\ ~call[1].rejected
                  /\ call'[1].pc = "idle"
                  /\ ret'[1] = [kind |-> "fetched", task |-> t, data |-> taskCache'[t].data]]_vars

\* a call was rejected in the middle of Promise.all while the status set or
\* the tags it asked for were stored, and the task has no entry
C12_Witness ==
    /\ ret[1].kind = "rejected"
    /\ call[1].pc = "idle"
    /\ cacheFails > 0
    /\ kanbanCache[ProjectOf(ret[1].task)].has
    /\ tagsCache.has
    /\ \A t \in Tasks : ~taskCache[t].has
    /\ now = 0

(* C18: invalidateTask(taskId) removes the task entry of taskId and leaves  *)
(* every other task entry, every status-set entry and the tags entry as     *)
(* they are.                                                                *)
C18_InvalidateFrame ==
    [][\A t \in Tasks :
          InvalidateTask(t) =>
              /\ ~taskCache'[t].has
              /\ \A u \in Tasks \ {t} : taskCache'[u] = taskCache[u]
              /\ kanbanCache' = kanbanCache
              /\ tagsCache' = tagsCache]_vars

\* both tasks were stored, and the one stored last has lost its entry alone
C18_Witness ==
    \E t \in Tasks :
        /\ ret[1].kind = "fetched"
        /\ ret[1].task = t
        /\ ~taskCache[t].has
        /\ \E u \in Tasks \ {t} : taskCache[u].has
        /\ kanbanCache[ProjectOf(t)].has
        /\ tagsCache.has

(* C19: invalidateAll leaves the three caches empty, and the getTaskData    *)
(* call that follows it requests the task from the remote store.            *)
C19_RefreshRefetches ==
    [][/\ InvalidateAll =>
              /\ \A t \in Tasks : ~taskCache'[t].has
              /\ \A q \in Projects : ~kanbanCache'[q].has
              /\ ~tagsCache'.has
       /\ \A t \in Tasks :
              (cleared /\ GetTaskData(1, t)) =>
                  /\ call'[1].pc = "task"
                  /\ call'[1].task = t]_vars

(* C15: a modify or rename signal that arrives while autoSync is off, or    *)
(* for a file whose extension is not md, starts no syncFile call and no     *)
(* timeout and changes no note, no task body and no cache.                  *)
C15_IntakeGating ==
    [][\A f \in Files :
          ((OnFileModified(f) \/ OnFileRenamed(f))
               /\ (~autoSync \/ extension(f) # "md")) =>
              UNCHANGED <<timer, due, runAt, args, age, starts, syncVars, cacheVars>>]_vars

\* two signals have come, the latest a rename of a note while autoSync was
\* off, and nothing has started
C15_Witness ==
    /\ nsig = 2
    /\ lastSig = [kind |-> "rename", file |-> "a.md", auto |-> FALSE]
    /\ ~timer
    /\ args = "none"
    /\ \A f \in Files : starts[f] = 0

(* C16, as the specification states it: a modify signal for a note that     *)
(* arrives while no call is pending starts a synchronization at once, and a *)
(* signal that arrives while one is pending starts none.                    *)
C16_LeadingEdge ==
    [][\A f \in Files :
          (OnFileModified(f) /\ autoSync /\ extension(f) = "md") =>
              IF timer
              THEN starts' = starts
              ELSE starts' = [starts EXCEPT ![f] = @ + 1]]_vars

(* C16, as the code has it: a modify signal for a note starts no            *)
(* synchronization itself; it leaves a call pending for that note, and the  *)
(* pending call runs once, no sooner than Window after the latest signal,   *)
(* so a burst of signals causes one synchronization, after the burst.       *)
C16_TrailingEdge ==
    /\ [](timer => args # "none")
    /\ [][/\ \A f \in Files :
                (OnFileModified(f) /\ autoSync /\ extension(f) = "md") =>
                    /\ starts' = starts
                    /\ timer'
                    /\ args' = f
          /\ (TimerFire /\ starts' # starts) =>
                /\ age = Window
                /\ starts' = [starts EXCEPT ![args] = @ + 1]
                /\ ~timer'
                /\ args' = "none"]_vars

\* a second modify signal has just moved the deadline of the pending call,
\* and no synchronization has started
C16_Witness ==
    /\ timer
    /\ runAt = Window
    /\ args = "a.md"
    /\ lastSig = [kind |-> "modify", file |-> "a.md", auto |-> TRUE]
    /\ nsig = 2
    /\ \A f \in Files : starts[f] = 0

(* C17: a rename signal for a note, with autoSync on, calls syncFile at     *)
(* once whether or not a debounced call is pending, and leaves the pending  *)
(* call, its timeout and its deadline as they are.                          *)
C17_RenameBypass ==
    [][\A f \in Files :
          (OnFileRenamed(f) /\ autoSync /\ extension(f) = "md") =>
              /\ starts' = [starts EXCEPT ![f] = @ + 1]
              /\ UNCHANGED <<timer, due, runAt, args, age>>]_vars

\* a rename came while a debounced call was pending: the synchronization
\* has started and the call is still pending
C17_Witness ==
    /\ nsig = 2
    /\ lastSig = [kind |-> "rename", file |-> "a.md", auto |-> TRUE]
    /\ timer
    /\ args = "a.md"
    /\ starts["a.md"] = 1

(* C30: when getTaskData misses the task entry, the status set of the       *)
(* task's project is requested only if its own entry is missing or older    *)
(* than the TTL, the tags only if the tags entry is missing or older than   *)
(* the TTL; the status assignment is always requested.                      *)
C30_PerEntryExpiry ==
    [][TaskFetched(1) =>
          LET t == call[1].task
              statuses == kanbanCache[ProjectOf(t)]
              old(entry) == ~entry.has \/ now - entry.timestamp > cacheTTL * Minute
          IN call'[1].asked = {"assign"}
                 \cup (IF old(statuses) THEN {"statuses"} ELSE {})
                 \cup (IF old(tagsCache) THEN {"tags"} ELSE {})]_vars

\* a call that missed the task entry asked for the tags, which had expired,
\* and not for the status set, which was stored later and had not
C30_Witness ==
    /\ call[1].pc = "rest"
    /\ call[1].asked = {"assign", "tags"}
    /\ kanbanCache[ProjectOf(call[1].task)].has
    /\ tagsCache.has

(* C28: with overlapping getTaskData calls for one task, the record the     *)
(* cache holds for a task is never an older version of the task than a      *)
(* record a caller has already been given for it.                           *)
C28_NoOlderEntry ==
    \A c \in Callers, t \in Tasks :
        (ret[c].task = t /\ ret[c].kind \in {"hit", "fetched"} /\ taskCache[t].has) =>
            taskCache[t].data >= ret[c].data

\* the position of the link that carries the identifier
LinkAt(ops, sid) == Min(LinksOf(ops, {sid}))

(* C26: when no operation carries the identifier, updateObsidianLinkById    *)
(* returns the input without its last operation if that is a bare line      *)
(* terminator, then one line terminator if anything remains, then the new   *)
(* link and one line terminator; and between two links appended one after   *)
(* the other there is exactly one operation, a line terminator.             *)
C26_AppendShape ==
    /\ (edOut.done /\ LinksOf(edIn.ops, {edIn.sid}) = {}) =>
          LET n    == Len(edIn.ops)
              bare == n > 0 /\ edIn.ops[n].insert = Newline /\ ~edIn.ops[n].hasAttr
              kept == IF bare THEN SubSeq(edIn.ops, 1, n - 1) ELSE edIn.ops
              sep  == IF Len(kept) > 0 THEN << PlainOp(Newline) >> ELSE << >>
          IN edOut.ops = kept \o sep
                 \o << LinkOp(LinkText(edIn.title), edIn.url \o <<SID_FRAGMENT, edIn.sid>>),
                       PlainOp(Newline) >>
    /\ \A j \in 1..(Len(edOut.added) - 1) :
          LET i1 == LinkAt(edOut.grown, edOut.added[j])
              i2 == LinkAt(edOut.grown, edOut.added[j + 1])
          IN /\ i2 = i1 + 2
             /\ edOut.grown[i1 + 1] = PlainOp(Newline)

\* a body of text that ends with a bare line terminator has had three
\* links appended, one after the other
C26_Witness ==
    /\ Len(edOut.added) = 3
    /\ Len(edIn.ops) >= 2
    /\ isOnlyNewline(edIn.ops[Len(edIn.ops)])
    /\ ~isOnlyNewline(edIn.ops[1])
    /\ Len(edOut.grown) = Len(edIn.ops) + 6

\* the string values of a tree, at any depth, that hold a reference URL
RECURSIVE UrlValues(_)
UrlValues(node) ==
    IF node.t = "str"
    THEN IF Includes(node.v, <<"singularityapp://", "?&page=any&id=">>)
         THEN {node.v} ELSE {}
    ELSE IF node.t = "arr"
    THEN UNION { UrlValues(node.v[i]) : i \in 1..Len(node.v) }
    ELSE UNION { UrlValues(node.v[i].val) : i \in 1..Len(node.v) }

(* C25: the scan of a frontmatter tree returns an entry for every string    *)
(* value of the tree that is or holds a reference URL, and the path of each *)
(* entry leads getFieldValue back to the entry's value.                     *)
C25_DiscoveryComplete ==
    scanOut.done =>
        /\ \A v \in UrlValues(scanIn) :
              \E j \in 1..Len(scanOut.results) : scanOut.results[j].url = v
        /\ \A j \in 1..Len(scanOut.results) :
              getFieldValue(scanIn, scanOut.results[j].fieldName)
                  = Str(scanOut.results[j].url)


\* syncCurrentFile's counter `synced` after a step of run p: the run's count
\* while the loop goes on, the count of the Notice once the loop has ended
synced(p) == IF proc'[p].pc = "idle" THEN lastRun'.done ELSE proc'[p].ndone

\* the fetched body already holds this reference's link with the current URL
UpToDate(p) ==
    LET run     == proc[p]
        content == remote[TaskOf(run)].content
    IN /\ ~SpreadThrows(content)
       /\ ResolveLink(parseNoteContent(content), Basename(run.path),
                      buildObsidianUrl(run.path), run.sid).skip

\* syncObsidianUrl returns for the entry of run p: after the PATCH or by the skip
C21_Returns(p) == PatchOk(p) \/ (GetNoteOk(p) /\ UpToDate(p))

\* syncObsidianUrl throws for the entry of run p
C21_Throws(p) ==
    \/ FmFail(p) \/ GetTaskFail(p) \/ GetNoteFail(p) \/ PatchFail(p)
    \/ (GetNoteOk(p) /\ SpreadThrows(remote[TaskOf(proc[p])].content))

C21_CountStep ==
    /\ (\E n \in Notes : StartSync(1, n)) => synced(1) = 0
    /\ C21_Returns(1) => synced(1) = proc[1].ndone + 1
    /\ C21_Throws(1) => synced(1) = proc[1].ndone
    /\ (FmWrite(1) \/ GetTaskOk(1) \/ (GetNoteOk(1) /\ proc'[1].pc = "patch")) =>
          synced(1) = proc[1].ndone

C21_Reported ==
    lastRun.note # "none" =>
        /\ lastRun.done <= lastRun.tried
        /\ lastRun.clean <=> lastRun.done = lastRun.tried

(* C21: the count the command reports starts at zero, grows by one for each *)
(* reference whose resolution returned (PATCHed or found up to date) and is  *)
(* left alone by a reference whose resolution raised an error, so the        *)
(* reported count equals the references attempted exactly when none failed.  *)
C21_SyncedCount ==
    []C21_Reported /\ [][C21_CountStep]_vars

C21_Witness ==
    /\ AllIdle
    /\ lastRun.note = "n1"
    /\ lastRun.tried = 2
    /\ lastRun.done = 1
    /\ ~lastRun.clean
    /\ fails = 1


\* run p is between the start of its loop and the end of it, before and after
C22_InRun(p) == proc[p].pc # "idle" /\ proc'[p].pc # "idle"

C22_OneAtATime(p) ==
    /\ (proc[p].pc = "idle" /\ proc'[p].pc # "idle") =>
          /\ proc'[p].urls = findAllSingularityUrls(cacheFm[proc'[p].note], 1)
          /\ proc'[p].i = NextValid(proc'[p].urls, 1)
    /\ C22_InRun(p) =>
          /\ proc'[p].urls = proc[p].urls
          /\ proc'[p].note = proc[p].note
          /\ proc'[p].i # proc[p].i =>
                /\ C21_Returns(p) \/ C21_Throws(p)
                /\ proc'[p].i = NextValid(proc[p].urls, proc[p].i + 1)
                /\ proc'[p].pc \in {"fm", "task"}
    /\ (proc[p].pc # "idle" /\ proc'[p].pc = "idle") =>
          /\ C21_Returns(p) \/ C21_Throws(p)
          /\ NextValid(proc[p].urls, proc[p].i + 1) > Len(proc[p].urls)

\* what a step of the runs changes belongs to the entry a run is at
C22_EffectsOfCurrent ==
    /\ \A n \in Notes : \A k \in DOMAIN fileFm[n] :
          fileFm'[n][k] # fileFm[n][k] =>
              \E p \in Procs : proc[p].pc = "fm" /\ RefOf(proc[p]) = <<n, k>>
    /\ \A t \in Tasks :
          remote'[t] # remote[t] =>
              \E p \in Procs : proc[p].pc = "patch" /\ TaskOf(proc[p]) = t

(* C22: a run takes its entries in the order findAllSingularityUrls returned *)
(* them; it moves to the next entry only in the step in which the resolution *)
(* of the current one returns or throws, and every field or task body a step *)
(* changes is that of the entry the run is at.                               *)
C22_Sequential ==
    [][(\A p \in Procs : C22_OneAtATime(p)) /\ C22_EffectsOfCurrent]_vars

C22_Witness ==
    /\ proc[1].note = "n1"
    /\ proc[1].pc = "patch"
    /\ proc[1].i = 2
    /\ proc[1].urls[2].fieldName = 3
    /\ proc[1].ntried = 2
    /\ proc[1].npatch = 1


\* how many #sid= fragments a field value holds
C29_Fragments(value) == Cardinality({i \in 1..Len(value) : value[i] = SID_FRAGMENT})

C29_AtMostOne ==
    \A n \in Notes : \A k \in DOMAIN fileFm[n] : C29_Fragments(fileFm[n][k]) <= 1

C29_FieldStep ==
    \A n \in Notes :
        /\ DOMAIN fileFm'[n] = DOMAIN fileFm[n]
        /\ \A k \in DOMAIN fileFm[n] :
              LET old == fileFm[n][k]
                  new == fileFm'[n][k]
              IN /\ Includes(old, <<SID_FRAGMENT>>) => new = old
                 /\ new # old =>
                       \E p \in Procs :
                           /\ proc[p].pc = "fm"
                           /\ RefOf(proc[p]) = <<n, k>>
                           /\ new = old \o <<SID_FRAGMENT, proc[p].sid>>

(* C29: a field value that carries a #sid= fragment is never changed by any *)
(* step of any run, no field ever holds two fragments, and the only change   *)
(* a run makes to a field is to append #sid= and the identifier it generated *)
(* for that reference.                                                       *)
C29_SidImmutable ==
    []C29_AtMostOne /\ [][C29_FieldStep]_vars

\* a second run, started on the stale metadataCache, has generated its own
\* identifier for a field that already carries the first run's
C29_Witness ==
    \E p \in Procs :
        /\ proc[p].pc = "task"
        /\ RefOf(proc[p]) = <<"n1", 2>>
        /\ Includes(fileFm["n1"][2], <<SID_FRAGMENT>>)
        /\ extractSidFromUrl(fileFm["n1"][2]) # proc[p].sid
        /\ issued[<<"n1", 2>>] = {generateUUID(FirstFreshSid), proc[p].sid}


\* the operations of a body that carry no link attribute, in order
C27_Outside(ops) == SelectSeq(ops, LAMBDA op : ~HasLink(op))

\* a body without its single trailing bare line terminator
C27_Trimmed(ops) ==
    IF ops # << >> /\ isOnlyNewline(ops[Len(ops)]) THEN SubSeq(ops, 1, Len(ops) - 1)
    ELSE ops

\* a link operation of the fetched body that is the reference's own: it
\* carries the identifier the run holds for the reference, or it carries no
\* identifier and points at a path of the run's note
C27_Own(op, run) ==
    LET url == op.attributes["link"]
    IN \/ Includes(url, <<SID_FRAGMENT, run.sid>>)
       \/ /\ ~Includes(url, <<SID_FRAGMENT>>)
          /\ \E q \in RenameTargets(run.note) : url = buildObsidianUrl(q)

C27_OutsideKept(run) ==
    LET kept == C27_Outside(C27_Trimmed(run.ops))
        sent == C27_Outside(run.delta)
    IN Len(kept) <= Len(sent) /\ SubSeq(sent, 1, Len(kept)) = kept

C27_OnlyOwnLinkDiffers(run) ==
    LET differs == {i \in 1..Len(run.ops) :
                       /\ HasLink(run.ops[i])
                       /\ i > Len(run.delta) \/ run.delta[i] # run.ops[i]}
    IN /\ Cardinality(differs) <= 1
       /\ \A i \in differs : C27_Own(run.ops[i], run)

(* C27: in every PATCH a run has in flight, the operations of the fetched    *)
(* body that carry no link (its trailing bare line terminator apart) are     *)
(* sent unchanged and in order, and at most one link operation of the        *)
(* fetched body is sent changed, which is the reference's own link.          *)
C27_OutsideLinksKept ==
    \A p \in Procs :
        proc[p].pc = "patch" =>
            C27_OutsideKept(proc[p]) /\ C27_OnlyOwnLinkDiffers(proc[p])


\* the awaited call of run 1 answers (the step is none of the rejections)
C23_Answers == proc'[1] # proc[1] /\ fails' = fails

C23_Step ==
    LET run == proc[1]
        t   == TaskOf(run)
    IN /\ (run.pc = "patch" /\ C23_Answers) =>
             /\ remote'[t] = [hasNote |-> TRUE, content |-> Serialize(run.delta)]
             /\ taskCache' = [taskCache EXCEPT ![t] = NoEntry]
       /\ (run.pc = "patch" /\ fails' # fails) =>
             /\ remote' = remote
             /\ taskCache' = taskCache
       /\ (run.pc = "note" /\ C23_Answers /\ UpToDate(1)) =>
             /\ remote' = remote
             /\ taskCache' = taskCache
             /\ proc'[1].pc # "patch"
       /\ taskCache' # taskCache => run.pc = "patch" /\ C23_Answers

(* C23: a run removes a task's cache entry exactly in the step in which the *)
(* PATCH for that task answers, and removes that entry only; a reference     *)
(* found up to date sends no PATCH and leaves the cache alone, and a         *)
(* rejected PATCH leaves the task body and the cache alone.                  *)
C23_WriteThenInvalidate == [][C23_Step]_vars

\* T1 was PATCHed and lost its entry; the reference to T2 failed, no PATCH
\* for T2 succeeded and T2 kept its entry
C23_Witness ==
    /\ AllIdle
    /\ lastRun.note = "n1"
    /\ lastRun.done = 1
    /\ lastRun.tried = 2
    /\ ~taskCache["T1"].has
    /\ taskCache["T2"].has
    /\ ~remote["T2"].hasNote
    /\ fileFm["n1"][3] = RefUrl("T2") \o <<SID_FRAGMENT, PreSid(<<"n1", 3>>)>>


\* what the remote store and the three caches hold
C24_Held == <<remote, taskCache, kanbanCache, tagsCache>>

C24_NothingDone ==
    token = "" =>
        /\ \A t \in Tasks : ~taskCache[t].has
        /\ \A q \in Projects : ~kanbanCache[q].has
        /\ ~tagsCache.has
        /\ \A p \in Procs : proc[p].pc \notin {"note", "patch"}
        /\ \A c \in Callers : call[c].pc # "rest" /\ ret[c].kind \in {"none", "rejected"}
        /\ \A r \in Refs : nsync[r] = 0
        /\ lastRun.done = 0

(* C24: while no credential is configured no step of a run or of a          *)
(* getTaskData call changes a task body or stores a cache entry: every run   *)
(* fails each reference at its first remote call, and every getTaskData call *)
(* ends rejected.                                                            *)
C24_NoCredential ==
    []C24_NothingDone /\ [][token = "" => C24_Held' = C24_Held]_vars

\* without a credential: a run over n1 has attempted both references and
\* finished none (having written the identifier it generated into the field),
\* and a getTaskData call has ended rejected
C24_Witness ==
    /\ token = ""
    /\ AllIdle
    /\ lastRun.note = "n1"
    /\ lastRun.tried = 2
    /\ lastRun.done = 0
    /\ Includes(fileFm["n1"][2], <<SID_FRAGMENT>>)
    /\ ret[1] = Ret("rejected", "T1", 0)


\* the resolved status is a backlog entry of the scoped status set
C31_IsBacklog(st) ==
    /\ ~st.isNull
    /\ st.id[Len(st.id)] = "TODO"
    /\ \E e \in Range(stIn.statuses) : e.id = st.id

(* C31: an active task with an explicit assignment resolves to the assigned *)
(* entry of the scoped status set, or to no status when the set lacks the    *)
(* assigned identifier; a backlog entry that the assignment does not name is *)
(* the result only for a task that is neither cancelled nor completed and    *)
(* has no assignment.                                                        *)
C31_BacklogOnlyUnplaced ==
    stOut.done =>
        LET st == stOut.status
        IN /\ (stIn.checked = 0 /\ stIn.assigned # << >>) =>
                 IF \E e \in Range(stIn.statuses) : e.id = stIn.assigned[1].statusId
                 THEN ~st.isNull /\ st.id = stIn.assigned[1].statusId
                 ELSE st.isNull
           /\ (C31_IsBacklog(st)
                /\ (stIn.assigned = << >> \/ stIn.assigned[1].statusId # st.id)) =>
                 stIn.checked = 0 /\ stIn.assigned = << >>

\* an active task assigned to a status the set lacks, while the set holds a
\* backlog entry: no status
C31_Witness ==
    /\ stOut.done
    /\ stOut.version = "locale"
    /\ stIn.checked = 0
    /\ stIn.assigned = << [taskId |-> "T1", statusId |-> StCustom.id] >>
    /\ stIn.statuses = << StTodo >>
    /\ stOut.status.isNull


\* the body created for a task that has none: the reference's link, then one
\* line terminator
C32_Created(run) ==
    << [insert     |-> <<"Obsidian: ", Basename(run.path)>>,
        hasAttr    |-> TRUE,
        attributes |-> [k \in {"link"} |-> <<"obsidian://", run.path, "#sid=", run.sid>>]],
       [insert |-> <<"\n">>, hasAttr |-> FALSE, attributes |-> EmptyAttrs] >>

C32_Step ==
    LET run == proc[1]
        t   == TaskOf(run)
    IN /\ (run.pc = "task" /\ C23_Answers /\ ~remote[t].hasNote) =>
             /\ proc'[1].pc = "patch"
             /\ proc'[1].i = run.i
             /\ proc'[1].delta = C32_Created(run)
             /\ remote' = remote
       /\ (run.pc = "patch" /\ C23_Answers /\ run.ops = << >>
           /\ ~remote[t].hasNote) =>
             remote'[t] = [hasNote |-> TRUE, content |-> Serialize(C32_Created(run))]

\* a run never waits for the body of a task that has none
C32_NoBodyFetch ==
    proc[1].pc = "note" => remote[TaskOf(proc[1])].hasNote

(* C32: when the fetched task has no body the run goes from the task fetch  *)
(* straight to the PATCH, without a body fetch and without the up-to-date    *)
(* test, and the PATCH holds exactly the reference's new link operation      *)
(* followed by one line terminator.                                          *)
C32_TaskWithoutBody ==
    []C32_NoBodyFetch /\ [][C32_Step]_vars

C32_Witness ==
    /\ AllIdle
    /\ lastRun.note = "n1"
    /\ lastRun.clean
    /\ remote["T2"] =
          [hasNote |-> TRUE,
           content |-> Serialize(<< LinkOp(LinkText("a"),
                                      buildObsidianUrl("a.md")
                                        \o <<SID_FRAGMENT, PreSid(<<"n1", 3>>)>>),
                                    PlainOp(Newline) >>)]


\* the fetched body holds a link that carries the run's identifier and whose
\* value before the fragment is the note's URL
C33_Current(run) ==
    LET content == remote[TaskOf(run)].content
    IN /\ content.kind = "array"
       /\ \E i \in 1..Len(content.ops) :
             /\ HasLink(content.ops[i])
             /\ content.ops[i].attributes["link"] =
                    <<"obsidian://", run.path, "#sid=", run.sid>>

C33_Step ==
    LET run == proc[1]
    IN (run.pc = "note" /\ C23_Answers /\ C33_Current(run)) =>
          /\ remote' = remote
          /\ proc'[1].pc # "patch" \/ proc'[1].i # run.i
          /\ synced(1) = run.ndone + 1
          /\ IF proc'[1].pc = "idle" THEN lastRun'.clean = ~run.failed
             ELSE proc'[1].npatch = run.npatch

(* C33: when the fetched body holds a link with the run's identifier whose  *)
(* value before the fragment is the note's URL, the resolution returns at    *)
(* once: no PATCH is issued and the body stays as it is, whatever the        *)
(* display text of that operation.                                           *)
C33_GuardIgnoresText == [][C33_Step]_vars

\* a second run found the migrated link, whose text is not the synchronizer's
C33_Witness ==
    /\ AllIdle
    /\ lastRun.note = "n1"
    /\ nsync[<<"n1", 2>>] = 2
    /\ \E s \in Range(Uuids) :
          remote["T1"].content =
              Serialize(<< PlainOp(<<"text">>),
                           LinkOp(<<"my note">>,
                                  buildObsidianUrl("a.md") \o <<SID_FRAGMENT, s>>),
                           PlainOp(Newline) >>)


(* C34: whenever a run has a PATCH in flight under an identifier, the field *)
(* of the reference in the note's file carries the fragment with that        *)
(* identifier.                                                               *)
C34_PatchUnderFieldSid ==
    \A p \in Procs :
        proc[p].pc = "patch" =>
            LET r == RefOf(proc[p])
            IN Includes(fileFm[r[1]][r[2]], <<SID_FRAGMENT, proc[p].sid>>)


(* C35: a modify signal for a note, arriving while the synchronization of   *)
(* another note is pending, does not take that synchronization away: the     *)
(* other note's call stays pending or runs, so that once nothing is pending  *)
(* a synchronization has started for each of the two notes.                  *)
C35_NoSuppression ==
    [][\A f \in Files :
          (OnFileModified(f) /\ autoSync /\ extension(f) = "md"
               /\ timer /\ args \notin {f, "none"}) =>
              \/ args' = args
              \/ starts'[args] = starts[args] + 1]_vars


\* the step is the PATCH of run p taking effect in the store
C36_Patches(p) ==
    /\ proc[p].pc = "patch"
    /\ remote' # remote
    /\ remote'[TaskOf(proc[p])].content = Serialize(proc[p].delta)

(* C36: when runs for different references to the same task overlap, no     *)
(* PATCH removes from the task's body a link that carries an identifier     *)
(* other than the one the PATCH is issued under: a link the body held       *)
(* before the PATCH for another identifier is in the body after it.         *)
C36_NoLostLink ==
    [][\A p \in Procs, t \in Tasks, s \in Range(Uuids) :
          (C36_Patches(p) /\ t = TaskOf(proc[p]) /\ s # proc[p].sid) =>
              (LinksOf(Body(t), {s}) # {} => LinksOf(Body(t)', {s}) # {})]_vars


(* C37: an unexpired record the cache holds for a task was fetched after    *)
(* the synchronizer's last PATCH of that task: a getTaskData call that      *)
(* fetched the task before the PATCH and completes after the invalidation   *)
(* leaves no entry with the task as it was before the PATCH.                *)
C37_FetchedAfterPatch ==
    \A t \in Tasks : Fresh(taskCache[t]) => taskCache[t].data = srv[t]


(* C38: after one user edit with auto-sync on, the runs that follow the     *)
(* first (those the synchronizer's own field write brings about) issue no   *)
(* PATCH and change no field.                                               *)
C38_LaterRunsChangeNothing ==
    /\ [](proc[2].pc # "patch" /\ proc[2].npatch = 0)
    /\ [][proc[2].pc = "fm" => fileFm' = fileFm]_vars

=============================================================================
